---- MODULE Spec2Model ----
(***************************************************************************)
(* Transcript reconciliation and incremental speech forwarding of the      *)
(* interview view (src/src/components/layout/InterviewView.jsx).           *)
(*                                                                         *)
(* Strings are sequences of one-character strings, so that trim(),         *)
(* startsWith() and substring() are computed as the code computes them.    *)
(***************************************************************************)
EXTENDS Integers, Sequences, FiniteSets, TLC

\* ------------------------------------------------------------------ bounds
MaxLen == 3        \* longest raw fragment fed to the reconciler
MaxLog == 3        \* longest chat log explored
MaxTicks == 2      \* clock ticks explored
MaxInflight == 2   \* sendTask promises pending at once
MaxIdBases == 1    \* distinct values generateMessageId returns
MaxSessions == 2   \* sessions the remote service hands out in a run
MaxCalls == 4      \* createSession / startSession / closeSession calls in a run
MaxTimers == 2     \* restart timers pending at once
MaxStreams == 2    \* capture streams of one device live at once
MaxPending == 2    \* getUserMedia requests of one device pending at once
MaxCandidates == 2 \* candidates the peer connections emit in a run
MaxTracks == 3     \* remote tracks subscribed at once
MaxRetries == 3    \* largest retries argument of fetchWithRetry (its default)
MaxSelects == 2    \* handleAvatarSelect invocations in a run

\* --------------------------------------------------------- program constants
DupWindowMs == 2000                 \* InterviewView.jsx:363
TickMs == DupWindowMs \div 2        \* granularity of the modelled clock

Alphabet == {"a", " "}
IdBases == 1..MaxIdBases            \* values generateMessageId may return
LocalIdentity == "user"             \* livekitRoom.localParticipant.identity || 'user'
NoSession == "null"
SessionIds == {"sess"}

Fragments == UNION {[1..n -> Alphabet] : n \in 0..MaxLen}

\* ------------------------------------------------------------ string helpers
IsSpace(c) == c = " "

RECURSIVE TrimStart(_)
TrimStart(s) == IF s # <<>> /\ IsSpace(Head(s)) THEN TrimStart(Tail(s)) ELSE s

RECURSIVE TrimEnd(_)
TrimEnd(s) == IF s # <<>> /\ IsSpace(s[Len(s)]) THEN TrimEnd(SubSeq(s, 1, Len(s) - 1)) ELSE s

\* String.prototype.trim
Trim(s) == TrimEnd(TrimStart(s))

\* String.prototype.startsWith
StartsWith(s, p) == Len(p) <= Len(s) /\ SubSeq(s, 1, Len(p)) = p

\* String.prototype.substring(n) and substring(0, n)
Substring(s, n) == SubSeq(s, n + 1, Len(s))
SubstringTo(s, n) == SubSeq(s, 1, IF n < Len(s) THEN n ELSE Len(s))

Abs(x) == IF x < 0 THEN -x ELSE x

\* ------------------------------------------------------------------- state
VARIABLES
    chatMessages,           \* useState([]): the message log
    lastSentToHeyGenRef,    \* useRef(''): the forwarding cursor
    liveKitAudioActiveRef,  \* useRef(false): the upstream-audio-active gate
    heygenSessionId,        \* prop: id of the avatar session, or null
    endedListener,          \* an agent audio track carries an 'ended' listener
    now,                    \* Date.now()
    inflight,               \* sendTask promises not yet settled
    lastLog,                \* history: the last reconciler call and the log it found
    lastFwd,                \* history: the last agent update and what it forwarded
    run,                    \* history: the current run of growing fragments
    utt,                    \* history: the agent utterance being forwarded
    failedSends,            \* history: sends rejected since the last forward
    sessionInfo,            \* SessionManager.sessionInfo: a session, or Null
    webRTCManager,          \* SessionManager.webRTCManager: a WebRTCManager, or Null
    isConnected,            \* SessionManager.isConnected
    hookSessionInfo,        \* useStreamingSession: useState(null)
    hookPeerConnection,     \* useStreamingSession: useState(null)
    hookIsConnected,        \* useStreamingSession: useState(false)
    peerConnections,        \* the RTCPeerConnection of each WebRTCManager created
    remoteSessions,         \* the rendering service: sessions created, started, stopped
    calls,                  \* the async calls made, each at its await or settled
    lastCandidate,          \* history: the last icecandidate event and what it caused
    lastSpeak,              \* history: the last SessionManager.sendTask call
    lastUnload,             \* history: the beforeunload event or stopSessionSync call
    isListening,            \* useSpeechRecognition: useState(false)
    error,                  \* useSpeechRecognition: useState(null), the surfaced error
    autoStartRef,           \* useRef(autoStart): auto-restart enabled
    restartTimeoutRef,      \* useRef(null): the id setTimeout returned, or Null
    echoCancellationStreamRef, \* useRef(null): the held microphone stream, or Null
    recognition,            \* the recognizer: "idle" or "running"
    timers,                 \* restart timers armed and not yet fired or cleared
    micStreams,             \* microphone streams acquired and not yet stopped
    pendingListen,          \* startListening calls awaiting getUserMedia
    stream,                 \* useWebcam: useState(null), the held camera stream
    isActive,               \* useWebcam: useState(false)
    webcamError,            \* useWebcam: useState(null)
    camStreams,             \* camera streams acquired and not yet stopped
    pendingWebcam,          \* startWebcam calls awaiting getUserMedia
    lastCap,                \* history: the last capture event and what it did
    disturbed,              \* history: pending timers a stop() or fatal error followed
    restarted,              \* history: pending timers a startListening call followed
    since,                  \* history: a fatal error, failed restart or stop() not yet followed up
    lastFed,                \* history: the last fragment fed to the reconciler
    emitted,                \* candidates the peer connections have emitted
    iceCalls,               \* submitIceCandidate calls made, each with its fetch
    lastIce,                \* history: the last icecandidate event
    tracks,                 \* remote tracks subscribed and not ended
    retry,                  \* a fetchWithRetry call: its position and its attempts
    view,                   \* useState('dashboard'): 'dashboard', 'loading' or 'interview'
    viewBy,                 \* history: what set the view last
    selectedAvatar,         \* useState(null)
    livekitRoom,            \* useState(null): the room of the invocation that connected it
    sessionInfoState,       \* useStreamingSession: useState(null), the session id held
    backendReady,           \* useState(false)
    selects,                \* the handleAvatarSelect invocations made, in order
    closing,                \* the handleCancelLoading / handleExitInterview call pending
    currentRoom,            \* livekitService.currentRoom
    issued                  \* session ids the remote service has handed out to the app

logVars  == <<chatMessages, now>>
fwdVars  == <<lastSentToHeyGenRef, inflight>>
gateVars == <<liveKitAudioActiveRef, endedListener>>
progVars == <<logVars, fwdVars, gateVars, heygenSessionId>>

logHist  == <<lastLog, run>>
fwdHist  == <<lastFwd, utt, failedSends>>

managerVars == <<sessionInfo, webRTCManager, isConnected>>
hookVars    == <<hookSessionInfo, hookPeerConnection, hookIsConnected>>
sessVars    == <<managerVars, hookVars, peerConnections, remoteSessions, calls>>
sessHist    == <<lastCandidate, lastSpeak>>
unloadVars  == <<lastUnload>>

recVars     == <<isListening, error, autoStartRef, restartTimeoutRef, recognition, timers>>
micVars     == <<echoCancellationStreamRef, micStreams, pendingListen>>
camVars     == <<stream, isActive, webcamError, camStreams, pendingWebcam>>
capHist     == <<lastCap, disturbed, restarted, since>>
captureVars == <<recVars, micVars, camVars, capHist>>

fedHist     == <<lastFed>>

iceVars     == <<emitted, iceCalls, lastIce>>

\* The state of the components modelled after the reconciler, the session
\* lifecycle and the capture hooks.
trackVars   == <<tracks>>

retryVars   == <<retry>>

appVars     == <<view, viewBy, selectedAvatar, livekitRoom, sessionInfoState, backendReady,
                 selects, closing, currentRoom, issued>>

otherVars   == <<iceVars, trackVars, retryVars, appVars>>

vars == <<progVars, logHist, fwdHist, sessVars, sessHist, unloadVars, captureVars,
          fedHist, otherVars>>

\* --------------------------------------------------------- message identity
\* The while loop of lines 372-375 / 700-703: messageId = `${messageId}-${counter}`.
\* An id is the sequence <<base, 0, 1, ...>> of the base and the suffixes appended.
RECURSIVE Disambiguate(_, _, _)
Disambiguate(prev, messageId, counter) ==
    IF \E i \in 1..Len(prev) : prev[i].id = messageId
    THEN Disambiguate(prev, Append(messageId, counter), counter + 1)
    ELSE messageId

\* Mutant: the generated id is used as it comes, without the loop.
UniqueMessageIdNoLoop(prev, base) == <<base>>

UniqueMessageId(prev, base) == Disambiguate(prev, <<base>>, 0)

\* ------------------------------------------------------------- reconciler
\* Mutant: the duplicate check left out.
ReconcileUserNoDedup(prev, trimmedText, timestamp, participantId, base) ==
    Append(prev, [id |-> Disambiguate(prev, <<base>>, 0),
                  text |-> trimmedText,
                  sender |-> "user",
                  timestampMs |-> timestamp,
                  participantId |-> participantId])

\* The updater passed to setChatMessages by addUserMessageToChat.
ReconcileUser(prev, trimmedText, timestamp, participantId, base) ==
    LET isDuplicate == \E i \in 1..Len(prev) :
            /\ prev[i].text = trimmedText
            /\ prev[i].sender = "user"
            /\ prev[i].participantId = participantId
            /\ Abs(timestamp - prev[i].timestampMs) < DupWindowMs
    IN  IF isDuplicate THEN prev
        ELSE Append(prev, [id |-> UniqueMessageId(prev, base),
                           text |-> trimmedText,
                           sender |-> "user",
                           timestampMs |-> timestamp,
                           participantId |-> participantId])

\* Mutant: the prefix test the wrong way round.
IsContinuationSwapped(trimmedText, lastText) == StartsWith(lastText, trimmedText)

IsContinuation(trimmedText, lastText) ==
    \/ StartsWith(trimmedText, lastText)
    \/ /\ Len(lastText) > 0
       /\ Len(trimmedText) > Len(lastText)
       /\ SubstringTo(trimmedText, Len(lastText)) = lastText

\* Mutant: the update goes to the latest agent message, wherever it is in the log.
ReconcileAgentUpdatesAnywhere(prev, trimmedText, isUpdate, timestamp, participantId, base) ==
    LET agents == {i \in 1..Len(prev) : prev[i].sender = "agent"}
        lastIndex == IF agents = {} THEN 0
                     ELSE CHOOSE i \in agents : \A j \in agents : j <= i
        mergeTail == /\ lastIndex >= 1
                     /\ \/ IsContinuation(trimmedText, Trim(prev[lastIndex].text))
                        \/ isUpdate
        isDuplicate == \E i \in 1..Len(prev) :
            prev[i].text = trimmedText /\ prev[i].sender = "agent"
    IN  IF mergeTail
        THEN [prev EXCEPT ![lastIndex] =
                 [@ EXCEPT !.text = trimmedText, !.timestampMs = timestamp]]
        ELSE IF isDuplicate THEN prev
        ELSE Append(prev, [id |-> Disambiguate(prev, <<base>>, 0),
                           text |-> trimmedText,
                           sender |-> "agent",
                           timestampMs |-> timestamp,
                           participantId |-> participantId])

\* Mutant: the tail is merged into whoever sent it.
ReconcileAgentAnyTail(prev, trimmedText, isUpdate, timestamp, participantId, base) ==
    LET lastIndex == Len(prev)
        mergeTail == /\ lastIndex >= 1
                     /\ \/ IsContinuation(trimmedText, Trim(prev[lastIndex].text))
                        \/ isUpdate
        isDuplicate == \E i \in 1..Len(prev) :
            prev[i].text = trimmedText /\ prev[i].sender = "agent"
    IN  IF mergeTail
        THEN [prev EXCEPT ![lastIndex] =
                 [@ EXCEPT !.text = trimmedText, !.timestampMs = timestamp]]
        ELSE IF isDuplicate THEN prev
        ELSE Append(prev, [id |-> Disambiguate(prev, <<base>>, 0),
                           text |-> trimmedText,
                           sender |-> "agent",
                           timestampMs |-> timestamp,
                           participantId |-> participantId])

\* The updater passed to setChatMessages by addAgentMessageToChat.
ReconcileAgent(prev, trimmedText, isUpdate, timestamp, participantId, base) ==
    LET lastIndex == Len(prev)
        mergeTail == /\ lastIndex >= 1
                     /\ prev[lastIndex].sender = "agent"
                     /\ \/ IsContinuation(trimmedText, Trim(prev[lastIndex].text))
                        \/ isUpdate
        isDuplicate == \E i \in 1..Len(prev) :
            prev[i].text = trimmedText /\ prev[i].sender = "agent"
    IN  IF mergeTail
        THEN [prev EXCEPT ![lastIndex] =
                 [@ EXCEPT !.text = trimmedText, !.timestampMs = timestamp]]
        ELSE IF isDuplicate THEN prev
        ELSE Append(prev, [id |-> UniqueMessageId(prev, base),
                           text |-> trimmedText,
                           sender |-> "agent",
                           timestampMs |-> timestamp,
                           participantId |-> participantId])

\* -------------------------------------------------------------- forwarder
\* Mutant: neither the equality test nor the delta; the full text every time.
ForwardDecisionAlwaysFull(trimmedText, cursor, gate, sessionId) ==
    IF sessionId # NoSession /\ gate
    THEN [send |-> <<trimmedText>>, cursor |-> trimmedText]
    ELSE [send |-> <<>>, cursor |-> cursor]

\* Mutant: the delta is sent as cut, without trim().
ForwardDecisionNoTrim(trimmedText, cursor, gate, sessionId) ==
    IF sessionId # NoSession /\ trimmedText # cursor /\ gate
    THEN IF cursor # <<>> /\ StartsWith(trimmedText, cursor)
         THEN [send |-> <<Substring(trimmedText, Len(cursor))>>, cursor |-> trimmedText]
         ELSE [send |-> <<trimmedText>>, cursor |-> trimmedText]
    ELSE [send |-> <<>>, cursor |-> cursor]

\* Mutant: the delta is cut without testing that the text starts with the cursor.
ForwardDecisionNoPrefixTest(trimmedText, cursor, gate, sessionId) ==
    IF sessionId # NoSession /\ trimmedText # cursor /\ gate
    THEN IF cursor # <<>>
         THEN LET textToSend == Trim(Substring(trimmedText, Len(cursor)))
              IN  IF textToSend = <<>>
                  THEN [send |-> <<>>, cursor |-> cursor]
                  ELSE [send |-> <<textToSend>>, cursor |-> trimmedText]
         ELSE [send |-> <<trimmedText>>, cursor |-> trimmedText]
    ELSE [send |-> <<>>, cursor |-> cursor]

\* Mutant: the gate is not consulted.
ForwardDecisionNoGate(trimmedText, cursor, gate, sessionId) ==
    IF sessionId # NoSession /\ trimmedText # cursor
    THEN IF cursor # <<>> /\ StartsWith(trimmedText, cursor)
         THEN LET textToSend == Trim(Substring(trimmedText, Len(cursor)))
              IN  IF textToSend = <<>>
                  THEN [send |-> <<>>, cursor |-> cursor]
                  ELSE [send |-> <<textToSend>>, cursor |-> trimmedText]
         ELSE [send |-> <<trimmedText>>, cursor |-> trimmedText]
    ELSE [send |-> <<>>, cursor |-> cursor]

\* Mutant: the delta is sent but the cursor is not advanced over it.
ForwardDecisionStaleCursor(trimmedText, cursor, gate, sessionId) ==
    IF sessionId # NoSession /\ trimmedText # cursor /\ gate
    THEN IF cursor # <<>> /\ StartsWith(trimmedText, cursor)
         THEN LET textToSend == Trim(Substring(trimmedText, Len(cursor)))
              IN  IF textToSend = <<>>
                  THEN [send |-> <<>>, cursor |-> cursor]
                  ELSE [send |-> <<textToSend>>, cursor |-> cursor]
         ELSE [send |-> <<trimmedText>>, cursor |-> trimmedText]
    ELSE [send |-> <<>>, cursor |-> cursor]

\* Lines 723-753: what addAgentMessageToChat sends and where it leaves the cursor.
\* send is <<>> (no sendTask call) or <<textToSend>>.
ForwardDecision(trimmedText, cursor, gate, sessionId) ==
    IF sessionId # NoSession /\ trimmedText # cursor /\ gate
    THEN IF cursor # <<>> /\ StartsWith(trimmedText, cursor)
         THEN LET textToSend == Trim(Substring(trimmedText, Len(cursor)))
              IN  IF textToSend = <<>>
                  THEN [send |-> <<>>, cursor |-> cursor]
                  ELSE [send |-> <<textToSend>>, cursor |-> trimmedText]
         ELSE [send |-> <<trimmedText>>, cursor |-> trimmedText]
    ELSE [send |-> <<>>, cursor |-> cursor]

\* ---------------------------------------------------------------- history
Count(log, sender, text) ==
    Cardinality({i \in 1..Len(log) : log[i].sender = sender /\ log[i].text = text})

TailSender(log) == IF Len(log) = 0 THEN "none" ELSE log[Len(log)].sender

Min(a, b) == IF a < b THEN a ELSE b

NoRun == [sender |-> "none", startLen |-> 0, firstId |-> <<>>, n |-> 0,
          text |-> <<>>, dupAtStart |-> FALSE]

\* The run of fragments t1..tn of one sender, each starting with the one before,
\* that began on a log whose last message was not from that sender.
NextRun(sender, trimmedText, prev, next) ==
    IF run.sender = sender /\ StartsWith(trimmedText, run.text)
    THEN [run EXCEPT !.n = Min(run.n + 1, MaxLen + 1), !.text = trimmedText]
    ELSE IF TailSender(prev) # sender
    THEN [sender |-> sender, startLen |-> Len(prev),
          firstId |-> IF Len(next) = Len(prev) + 1 THEN <<next[Len(next)].id>> ELSE <<>>,
          n |-> 1, text |-> trimmedText,
          dupAtStart |-> Count(prev, sender, trimmedText) > 0]
    ELSE NoRun

NoLastLog == [op |-> "none", text |-> <<>>, prevLen |-> 0, repeat |-> FALSE,
              within |-> FALSE, at |-> 0, cnt0 |-> 0, cntFirst0 |-> 0]

\* The record of a reconciler call: its sender and trimmed text, the log it found,
\* and whether it repeats the fragment fed just before it.
NextLastLog(op, trimmedText) ==
    LET repeat == lastLog.op = op /\ lastLog.text = trimmedText
    IN  [op |-> op, text |-> trimmedText, prevLen |-> Len(chatMessages),
         repeat |-> repeat,
         within |-> repeat /\ Abs(now - lastLog.at) < DupWindowMs,
         at |-> now,
         cnt0 |-> Count(chatMessages, op, trimmedText),
         cntFirst0 |-> IF repeat THEN lastLog.cnt0 ELSE 0]

NoLastFwd == [n |-> 0, text |-> <<>>, gate |-> FALSE, cursor |-> <<>>,
              cursorAfter |-> <<>>, sent |-> <<>>, afterFail |-> {}]

\* The record of an agent update: its trimmed text, the gate and cursor it found,
\* what it passed to sendTask, the cursor it left, and the sends that had failed since the last forward.
NextLastFwd(trimmedText, sent, cursorAfter, failed) ==
    [n |-> Min(lastFwd.n + 1, 2), text |-> trimmedText,
     gate |-> liveKitAudioActiveRef, cursor |-> lastSentToHeyGenRef,
     cursorAfter |-> cursorAfter, sent |-> sent, afterFail |-> failed]

NoUtt == [text |-> <<>>, clean |-> TRUE, covered |-> {}, twice |-> {}]

\* The positions of trimmedText that a sendTask call with argument chunk carries.
Carried(trimmedText, send) ==
    IF send = <<>> THEN {}
    ELSE (Len(trimmedText) - Len(send[1]) + 1)..Len(trimmedText)

\* The agent utterance: the updates since the last one that did not start with
\* its predecessor, and the positions of its text passed to sendTask so far.
NextUtt(trimmedText, send) ==
    LET same == utt.text # <<>> /\ StartsWith(trimmedText, utt.text)
        base == IF same THEN utt ELSE NoUtt
        c    == Carried(trimmedText, send)
    IN  [text |-> trimmedText, clean |-> base.clean,
         covered |-> base.covered \cup c,
         twice |-> base.twice \cup (base.covered \cap c)]

\* ------------------------------------------------------- session lifecycle
\* null, for sessionInfo, webRTCManager and the hook's state.
Null == 0

\* The n-th session the rendering service creates, the WebRTCManager built for it
\* (SessionManager.js line 27) and that manager's RTCPeerConnection share the id n.
SessionSlots == 1..MaxSessions

\* new WebRTCManager(iceServers): peerConnection = null until createPeerConnection.
\* open: the manager holds the connection and it is not closed. onicecandidate and
\* ondatachannel: a handler is installed. answering: createAnswer has been invoked;
\* handlerAtAnswer: onicecandidate was installed when it was.
NoPeerConnection ==
    [state |-> "none", onicecandidate |-> FALSE, ondatachannel |-> FALSE,
     answering |-> FALSE, handlerAtAnswer |-> FALSE]

NoRemoteSession == [created |-> FALSE, started |-> FALSE, stopIssued |-> FALSE]

\* The record of an icecandidate event: the connection it fired on, whether that
\* connection was open and had begun its answer, whether a closeSession call had
\* completed before, sessionInfo at the event, the session id passed to
\* submitIceCandidate (Null: no call) and whether the handler threw.
NoCandidate ==
    [n |-> 0, pc |-> Null, live |-> FALSE, answering |-> FALSE, afterClose |-> FALSE,
     session |-> Null, submitted |-> Null, threw |-> FALSE]

\* The record of a SessionManager.sendTask call: the session id transmitted to
\* (Null: it threw), and whether then the manager was connected, its peer connection
\* open, and a closeSession call for the session in flight.
NoSpeak ==
    [n |-> 0, session |-> Null, connected |-> FALSE, live |-> FALSE, closing |-> FALSE]

\* The record of a beforeunload event (handler) or of a stopSessionSync call made
\* directly: the hook's sessionInfo at the event, whether stopSessionSync was
\* called and with which id, what sendBeacon did, the beacons and keepalive
\* fetches issued, and whether an exception left the call.
NoUnload ==
    [n |-> 0, handler |-> FALSE, session |-> Null, called |-> FALSE, sid |-> Null,
     beacon |-> "none", beacons |-> 0, fetches |-> 0, threw |-> FALSE]

\* The record of a capture event: the handler that ran, the error code of an
\* error event, whether recognition.start() was invoked and whether it threw, the
\* timer an 'end' event armed (Null: none), and, for a getUserMedia result, the
\* device and the streams of that device live when the new one was acquired.
NoCap ==
    [op |-> "none", code |-> "", started |-> FALSE, threw |-> FALSE, armed |-> Null,
     device |-> "", liveBefore |-> 0]

\* The record of a reconciler call: the sender, whether the fragment was empty or
\* white space only, and a mark that every call flips.
NoFed == [sender |-> "none", blank |-> FALSE, flip |-> FALSE]

\* null, for the surfaced error of the capture hooks.
NoError == "null"

\* Nothing to follow up: no fatal error awaiting its 'end' event, no failed restart
\* and no stop() since the last startListening call, no timer still pending that a
\* fatal error since the last startListening call found armed, and no
\* startListening call still awaiting getUserMedia that a stop() found suspended.
NoSince == [fatal |-> FALSE, restartFailed |-> FALSE, stopped |-> FALSE, struck |-> {},
            overtaken |-> 0]

\* The record of an icecandidate event: the connection it fired on, the number of
\* the candidate (0: the null candidate that ends gathering), whether the
\* connection was open with the handler of startSession installed, whether the
\* handler threw, and a mark that every event flips.
NoIce == [pc |-> Null, n |-> 0, open |-> FALSE, threw |-> FALSE, flip |-> FALSE]

\* No fetchWithRetry call made: at is the call's position ("fetch": awaiting fetch,
\* "pause": awaiting the 1 s timer, "returned", "threw"), n the retries argument of
\* the outermost call, retries that of the innermost, log the outcome of each
\* attempt, pauses the 1 s timers awaited, result the response returned or the
\* error thrown.
NoRetry == [at |-> "idle", n |-> 0, retries |-> 0, log |-> <<>>, pauses |-> 0,
            result |-> <<>>]

\* No handleCancelLoading or handleExitInterview call pending. In a pending call
\* room and session say whether the handler awaits disconnect() and closeSession().
NoClosing == [op |-> "idle", room |-> FALSE, session |-> FALSE]

\* ---------------------------------------------------------------- actions
Init ==
    /\ chatMessages = <<>>
    /\ lastSentToHeyGenRef = <<>>
    /\ liveKitAudioActiveRef = FALSE
    /\ heygenSessionId \in SessionIds \cup {NoSession}
    /\ endedListener = FALSE
    /\ now = 0
    /\ inflight = <<>>
    /\ lastLog = NoLastLog
    /\ lastFwd = NoLastFwd
    /\ run = NoRun
    /\ utt = NoUtt
    /\ failedSends = {}
    /\ sessionInfo = Null
    /\ webRTCManager = Null
    /\ isConnected = FALSE
    /\ hookSessionInfo = Null
    /\ hookPeerConnection = Null
    /\ hookIsConnected = FALSE
    /\ peerConnections = [k \in SessionSlots |-> NoPeerConnection]
    /\ remoteSessions = [k \in SessionSlots |-> NoRemoteSession]
    /\ calls = <<>>
    /\ lastCandidate = NoCandidate
    /\ lastSpeak = NoSpeak
    /\ lastUnload = NoUnload
    /\ isListening = FALSE
    /\ error = NoError
    /\ autoStartRef = FALSE
    /\ restartTimeoutRef = Null
    /\ echoCancellationStreamRef = Null
    /\ recognition = "idle"
    /\ timers = <<>>
    /\ micStreams = {}
    /\ pendingListen = 0
    /\ stream = Null
    /\ isActive = FALSE
    /\ webcamError = NoError
    /\ camStreams = {}
    /\ pendingWebcam = 0
    /\ lastCap = NoCap
    /\ disturbed = {}
    /\ restarted = {}
    /\ since = NoSince
    /\ lastFed = NoFed
    /\ emitted = 0
    /\ iceCalls = <<>>
    /\ lastIce = NoIce
    /\ tracks = {}
    /\ retry = NoRetry
    /\ view = "dashboard"
    /\ viewBy = "init"
    /\ selectedAvatar = Null
    /\ livekitRoom = Null
    /\ sessionInfoState = Null
    /\ backendReady = FALSE
    /\ selects = <<>>
    /\ closing = NoClosing
    /\ currentRoom = Null
    /\ issued = 0

\* Mutant: the test of lines 348-350 left out.
addUserMessageToChatNoBlankTest(messageText) ==
    \E base \in IdBases :
        /\ chatMessages' = ReconcileUser(chatMessages, Trim(messageText), now,
                                         LocalIdentity, base)
        /\ Len(chatMessages') <= MaxLog
        /\ UNCHANGED <<now, fwdVars, gateVars, heygenSessionId>>

\* addUserMessageToChat(messageText): typed messages (handleSendMessage) and final
\* transcriptions of the local participant (handleTextStream).
addUserMessageToChat(messageText) ==
    LET trimmedText == Trim(messageText)
    IN  IF messageText = <<>> \/ trimmedText = <<>>
        THEN UNCHANGED progVars
        ELSE \E base \in IdBases :
            /\ chatMessages' = ReconcileUser(chatMessages, trimmedText, now, LocalIdentity, base)
            /\ Len(chatMessages') <= MaxLog
            /\ UNCHANGED <<now, fwdVars, gateVars, heygenSessionId>>

\* addAgentMessageToChat(messageText, {identity: 'agent'}, isUpdate).
addAgentMessageToChat(messageText, isUpdate) ==
    LET trimmedText == Trim(messageText)
    IN  IF messageText = <<>> \/ trimmedText = <<>>
        THEN UNCHANGED progVars
        ELSE \E base \in IdBases :
            LET d == ForwardDecision(trimmedText, lastSentToHeyGenRef,
                                     liveKitAudioActiveRef, heygenSessionId)
            IN  /\ chatMessages' = ReconcileAgent(chatMessages, trimmedText, isUpdate,
                                                  now, "agent", base)
                /\ Len(chatMessages') <= MaxLog
                /\ lastSentToHeyGenRef' = d.cursor
                /\ inflight' = IF d.send = <<>> THEN inflight
                               ELSE Append(inflight, [chunk |-> d.send[1], full |-> trimmedText])
                /\ Len(inflight') <= MaxInflight
                /\ UNCHANGED <<now, gateVars, heygenSessionId>>

\* sendTask(...).then(...): the status line only.
SendTaskResolved(i) ==
    /\ i \in 1..Len(inflight)
    /\ inflight' = SubSeq(inflight, 1, i - 1) \o SubSeq(inflight, i + 1, Len(inflight))
    /\ UNCHANGED <<logVars, lastSentToHeyGenRef, gateVars, heygenSessionId>>

\* sendTask(...).catch(...): lastSentToHeyGenRef.current = ''.
SendTaskRejected(i) ==
    /\ i \in 1..Len(inflight)
    /\ inflight' = SubSeq(inflight, 1, i - 1) \o SubSeq(inflight, i + 1, Len(inflight))
    /\ lastSentToHeyGenRef' = <<>>
    /\ UNCHANGED <<logVars, gateVars, heygenSessionId>>

\* RoomEvent.TrackSubscribed.
handleTrackSubscribed(kind, isAgent) ==
    /\ IF kind = "audio" /\ isAgent
       THEN liveKitAudioActiveRef' = TRUE /\ endedListener' = TRUE
       ELSE UNCHANGED gateVars
    /\ UNCHANGED <<logVars, fwdVars, heygenSessionId>>

\* The 'ended' listener that handleTrackSubscribed puts on the track.
handleTrackEnded ==
    /\ endedListener
    /\ liveKitAudioActiveRef' = FALSE
    /\ UNCHANGED <<logVars, fwdVars, endedListener, heygenSessionId>>

\* RoomEvent.TrackUnsubscribed.
handleTrackUnsubscribed(kind, isAgent) ==
    /\ IF kind = "audio" /\ isAgent
       THEN liveKitAudioActiveRef' = FALSE
       ELSE UNCHANGED liveKitAudioActiveRef
    /\ UNCHANGED <<logVars, fwdVars, endedListener, heygenSessionId>>

\* Time passing between two events.
Tick ==
    /\ now < MaxTicks * TickMs
    /\ now' = now + TickMs
    /\ UNCHANGED <<chatMessages, fwdVars, gateVars, heygenSessionId>>

TrackKinds == {"audio", "video"}

\* -------------------------------------------------------------- observers
\* The history variables record what a step did; they constrain no program variable.
ObserveLog(sender, messageText) ==
    LET trimmedText == Trim(messageText)
    IN  IF trimmedText = <<>>
        THEN UNCHANGED logHist
        ELSE /\ lastLog' = NextLastLog(sender, trimmedText)
             /\ run' = NextRun(sender, trimmedText, chatMessages, chatMessages')

ObserveForward(messageText) ==
    LET trimmedText == Trim(messageText)
        sent == IF Len(inflight') > Len(inflight)
                THEN <<inflight'[Len(inflight')].chunk>> ELSE <<>>
        forwards == liveKitAudioActiveRef /\ heygenSessionId # NoSession
    IN  IF trimmedText = <<>>
        THEN UNCHANGED fwdHist
        ELSE /\ lastFwd' = NextLastFwd(trimmedText, sent, lastSentToHeyGenRef',
                                       IF forwards THEN failedSends ELSE {})
             /\ failedSends' = IF forwards THEN {} ELSE failedSends
             /\ utt' = NextUtt(trimmedText, sent)

ObserveRejected(i) ==
    /\ failedSends' = failedSends \cup {inflight[i]}
    /\ utt' = [utt EXCEPT !.clean = FALSE]
    /\ UNCHANGED lastFwd

\* ---------------------------------------------------------- specifications
\* addUserMessageToChat: a typed message or a final local transcription.
UserFragment == \E t \in Fragments :
    addUserMessageToChat(t) /\ ObserveLog("user", t) /\ UNCHANGED fwdHist
        /\ UNCHANGED <<sessVars, sessHist, unloadVars, captureVars, fedHist, otherVars>>

\* addAgentMessageToChat with either value of its isUpdate parameter.
AgentFragment == \E t \in Fragments, isUpdate \in BOOLEAN :
    addAgentMessageToChat(t, isUpdate) /\ ObserveLog("agent", t) /\ UNCHANGED fwdHist
        /\ UNCHANGED <<sessVars, sessHist, unloadVars, captureVars, fedHist, otherVars>>

\* addAgentMessageToChat as TranscriptionListener calls it (line 31: isUpdate = true).
AgentTranscription == \E t \in Fragments :
    addAgentMessageToChat(t, TRUE) /\ ObserveLog("agent", t) /\ UNCHANGED fwdHist
        /\ UNCHANGED <<sessVars, sessHist, unloadVars, captureVars, fedHist, otherVars>>

Clock == Tick /\ UNCHANGED <<logHist, fwdHist, sessVars, sessHist, unloadVars, captureVars, fedHist, otherVars>>

\* The reconciler fed by both senders, addAgentMessageToChat with any isUpdate.
NextReconciler ==
    \/ UserFragment
    \/ AgentFragment
    \/ Clock

SpecReconciler == Init /\ [][NextReconciler]_vars

\* The reconciler as the view drives it: agent fragments come from
\* TranscriptionListener only.
NextLiveReconciler ==
    \/ UserFragment
    \/ AgentTranscription
    \/ Clock

SpecLiveReconciler == Init /\ [][NextLiveReconciler]_vars

\* The run added one message, which keeps the id given to t1 and carries tn.
RunMerged ==
    /\ Len(chatMessages) = run.startLen + 1
    /\ run.firstId = <<chatMessages[Len(chatMessages)].id>>
    /\ chatMessages[Len(chatMessages)].text = run.text

C2_CrossSenderIsolation ==
    [][/\ \A i \in 1..Len(chatMessages) :
             chatMessages[i].sender # lastLog'.op =>
                 i <= Len(chatMessages') /\ chatMessages'[i] = chatMessages[i]
       /\ lastLog'.op # "none" =>
             \E i \in 1..Len(chatMessages') :
                 /\ chatMessages'[i].sender = lastLog'.op
                 /\ chatMessages'[i].text = lastLog'.text]_vars

\* An agent fragment whose text is the text of the user's tail message was appended.
C2_Witness ==
    /\ lastLog.op = "agent" /\ lastLog.prevLen >= 1
    /\ Len(chatMessages) = lastLog.prevLen + 1
    /\ chatMessages[lastLog.prevLen].sender = "user"
    /\ chatMessages[lastLog.prevLen].text = lastLog.text
    /\ chatMessages[Len(chatMessages)].sender = "agent"

\* C3 as stated: the same text fed twice in succession by one sender, the second
\* within the recency window, leaves exactly one message with that sender and text.
C3_DuplicateSuppressionAnyLog ==
    (lastLog.repeat /\ lastLog.within) =>
        Count(chatMessages, lastLog.op, lastLog.text) = 1

\* C3 as amended: so it does when the log held no message with that sender and
\* text before the first of the two.
C3_DuplicateSuppression ==
    (lastLog.repeat /\ lastLog.within /\ lastLog.cntFirst0 = 0) =>
        Count(chatMessages, lastLog.op, lastLog.text) = 1

C3_Witness ==
    /\ lastLog.op = "user" /\ lastLog.repeat /\ lastLog.within
    /\ lastLog.cntFirst0 = 0 /\ lastLog.prevLen >= 2
    /\ Len(chatMessages) = lastLog.prevLen

\* The forwarder fed by TranscriptionListener (line 31: isUpdate = true) under
\* every interleaving of gate changes and sendTask completions and failures.
AgentUpdate == \E t \in Fragments :
    addAgentMessageToChat(t, TRUE) /\ ObserveForward(t) /\ UNCHANGED logHist
        /\ UNCHANGED <<sessVars, sessHist, unloadVars, captureVars, fedHist, otherVars>>

SendResolved == \E i \in 1..MaxInflight :
    SendTaskResolved(i) /\ UNCHANGED <<logHist, fwdHist>>
        /\ UNCHANGED <<sessVars, sessHist, unloadVars, captureVars, fedHist, otherVars>>

SendRejected == \E i \in 1..MaxInflight :
    SendTaskRejected(i) /\ ObserveRejected(i) /\ UNCHANGED logHist
        /\ UNCHANGED <<sessVars, sessHist, unloadVars, captureVars, fedHist, otherVars>>

TrackSubscribed == \E k \in TrackKinds, a \in BOOLEAN :
    handleTrackSubscribed(k, a) /\ UNCHANGED <<logHist, fwdHist>>
        /\ UNCHANGED <<sessVars, sessHist, unloadVars, captureVars, fedHist, otherVars>>

TrackEnded == handleTrackEnded /\ UNCHANGED <<logHist, fwdHist, sessVars, sessHist, unloadVars, captureVars, fedHist, otherVars>>

TrackUnsubscribed == \E k \in TrackKinds, a \in BOOLEAN :
    handleTrackUnsubscribed(k, a) /\ UNCHANGED <<logHist, fwdHist>>
        /\ UNCHANGED <<sessVars, sessHist, unloadVars, captureVars, fedHist, otherVars>>

NextForwarder ==
    \/ AgentUpdate
    \/ SendResolved
    \/ SendRejected
    \/ TrackSubscribed
    \/ TrackEnded
    \/ TrackUnsubscribed

SpecForwarder == Init /\ [][NextForwarder]_vars

\* An agent update has been processed.
Updated == lastFwd.n >= 1

\* C4: an agent update whose text equals the cursor causes no sendTask call and
\* leaves the cursor as it is, with the gate open or closed.
C4_DeltaIdempotence ==
    (Updated /\ lastFwd.text = lastFwd.cursor) =>
        lastFwd.sent = <<>> /\ lastFwd.cursorAfter = lastFwd.cursor

C4_Witness ==
    /\ Updated /\ lastFwd.text = lastFwd.cursor /\ lastFwd.gate
    /\ heygenSessionId # NoSession
    /\ lastFwd.sent = <<>> /\ lastSentToHeyGenRef = lastFwd.text

StrictlyExtends(text, cursor) ==
    cursor # <<>> /\ StartsWith(text, cursor) /\ text # cursor

\* C5: with the gate open and a non-empty cursor C, an update whose text T strictly
\* extends C causes one sendTask call, with the trimmed T.substring(C.length), and
\* sets the cursor to T.
C5_DeltaCorrectness ==
    (Updated /\ lastFwd.gate /\ StrictlyExtends(lastFwd.text, lastFwd.cursor)) =>
        /\ lastFwd.sent = <<Trim(Substring(lastFwd.text, Len(lastFwd.cursor)))>>
        /\ lastFwd.cursorAfter = lastFwd.text

\* The delta was cut at a blank: " a" was sent as "a".
C5_Witness ==
    /\ Updated /\ lastFwd.gate /\ StrictlyExtends(lastFwd.text, lastFwd.cursor)
    /\ IsSpace(lastFwd.text[Len(lastFwd.cursor) + 1])
    /\ lastFwd.sent = <<Trim(Substring(lastFwd.text, Len(lastFwd.cursor)))>>

\* C6: with the gate open and a cursor C, an update whose text T does not start
\* with C causes one sendTask call, with the full text T, and sets the cursor to T.
C6_NewUtteranceReset ==
    (Updated /\ lastFwd.gate /\ ~StartsWith(lastFwd.text, lastFwd.cursor)) =>
        lastFwd.sent = <<lastFwd.text>> /\ lastFwd.cursorAfter = lastFwd.text

C6_Witness ==
    /\ Updated /\ lastFwd.gate /\ ~StartsWith(lastFwd.text, lastFwd.cursor)
    /\ Len(lastFwd.text) >= 2
    /\ lastFwd.sent = <<lastFwd.text>> /\ lastSentToHeyGenRef = lastFwd.text

\* C7: no step passes a text to sendTask while liveKitAudioActiveRef is false, and
\* an agent update processed while it is false leaves the cursor as it was.
C7_LivenessGate ==
    [][/\ Len(inflight') > Len(inflight) => liveKitAudioActiveRef
       /\ (lastFwd'.n >= 1 /\ ~lastFwd'.gate) =>
             lastFwd'.sent = <<>> /\ lastFwd'.cursorAfter = lastFwd'.cursor]_vars

\* An update with new text found the gate closed and a cursor left by an earlier send.
C7_Witness ==
    /\ Updated /\ ~lastFwd.gate /\ heygenSessionId # NoSession
    /\ lastFwd.cursor # <<>> /\ lastFwd.text # lastFwd.cursor
    /\ lastFwd.sent = <<>> /\ lastSentToHeyGenRef = lastFwd.cursor

\* The text of the most recent agent message of the log ('' when there is none).
LatestAgentText ==
    LET agentAt == {i \in 1..Len(chatMessages) : chatMessages[i].sender = "agent"}
    IN  IF agentAt = {} THEN <<>>
        ELSE chatMessages[CHOOSE i \in agentAt : \A j \in agentAt : j <= i].text

\* C8 as stated: the cursor is a prefix of the text of the latest reconciled agent
\* message, and every text passed to sendTask is that text with the cursor's length
\* removed from its front.
C8_CursorPrefixAlways ==
    /\ StartsWith(LatestAgentText, lastSentToHeyGenRef)
    /\ lastFwd.sent # <<>> =>
          lastFwd.sent[1] = Substring(lastFwd.text, Len(lastFwd.cursor))

\* C8 as amended: after an agent update processed with the gate open the cursor is
\* a prefix of that update's text; every text passed to sendTask is the trimmed
\* text after the cursor when the cursor is a non-empty prefix of the update's text,
\* and the full text otherwise.
C8_CursorPrefixGateOpen ==
    /\ (Updated /\ lastFwd.gate) => StartsWith(lastFwd.text, lastSentToHeyGenRef)
    /\ lastFwd.sent # <<>> =>
          lastFwd.sent[1] =
              IF lastFwd.cursor # <<>> /\ StartsWith(lastFwd.text, lastFwd.cursor)
              THEN Trim(Substring(lastFwd.text, Len(lastFwd.cursor)))
              ELSE lastFwd.text

\* After a gate-open update: a send of a delta, then its failure emptied the cursor.
C8_Witness ==
    /\ Updated /\ lastFwd.gate /\ lastFwd.sent # <<>>
    /\ lastFwd.sent[1] # lastFwd.text
    /\ lastSentToHeyGenRef = <<>> /\ failedSends # {}

Contains(s, c) ==
    \E i \in 0..(Len(s) - Len(c)) : SubSeq(s, i + 1, i + Len(c)) = c

\* The cursor is empty from a failed send on, and the next update processed with
\* the gate open sends its full text.
RolledBack ==
    /\ failedSends # {} => lastSentToHeyGenRef = <<>>
    /\ lastFwd.afterFail # {} => lastFwd.sent = <<lastFwd.text>>

\* C9: a failed sendTask empties the cursor, the next agent update
\* processed with the gate open sends its full text, and the chunk whose send
\* failed is contained in that transmission.
C9_RollbackResendsChunk ==
    /\ RolledBack
    /\ \A f \in lastFwd.afterFail : Contains(lastFwd.text, f.chunk)

\* C10: while the agent's updates each start with the one before and no sendTask
\* call fails, no position of the utterance's text is passed to sendTask twice,
\* whatever the gate does in between.
C10_NoReSpeaking == utt.clean => utt.twice = {}

\* A whole utterance went out in more than one chunk, one update having found the
\* gate closed on the way.
C10_Witness ==
    /\ utt.clean /\ utt.twice = {}
    /\ Len(utt.text) >= 3 /\ utt.covered = 1..Len(utt.text)
    /\ lastFwd.sent # <<>> /\ Len(lastFwd.sent[1]) >= 2
    /\ Len(lastFwd.sent[1]) < Len(utt.text)

\* ------------------------------------------------- session lifecycle: calls
\* An async call of the hook (useStreamingSession) into SessionManager: op is the
\* method, at the await it is suspended at ("ok" and "threw" once settled), k the
\* WebRTCManager and sid the session id it read before suspending, err the error it
\* threw, during the startSession calls suspended when a closeSession was invoked,
\* steps the steps of startSession it has completed, tuned whether
\* configureJitterBuffer found a connection, quiet whether nothing else was in
\* flight when a closeSession call settled, and after the state a closeSession
\* call found when it directly followed a settled closeSession call.
NewCall(op, at) ==
    [op |-> op, at |-> at, k |-> Null, sid |-> Null, err |-> "", during |-> {},
     steps |-> <<>>, tuned |-> FALSE, quiet |-> FALSE, after |-> <<>>]

Quiet(i) == \A j \in 1..Len(calls) : j # i => calls[j].at \in {"ok", "threw"}

Settled(c) == c.at \in {"ok", "threw"}

Threw(c, err) == [c EXCEPT !.at = "threw", !.err = err]

StartAwaits == {"start.answer", "start.setlocal", "start.remote"}

SuspendedStarts ==
    {j \in 1..Len(calls) : calls[j].op = "startSession" /\ calls[j].at \in StartAwaits}

\* The session the service creates next; none once MaxSessions exist.
FreshSessions ==
    {k \in SessionSlots : /\ ~remoteSessions[k].created
                          /\ \A j \in 1..(k - 1) : remoteSessions[j].created}

\* WebRTCManager.getPeerConnection(): the manager's connection, null once closed.
HasPeerConnection(k) == k # Null /\ peerConnections[k].state = "open"

\* ---- createSession (SessionManager.js 23-39, useStreamingSession.js 31-45)
\* The call up to its first await: heygenService.createSession is issued.
createSession ==
    /\ Len(calls) < MaxCalls
    /\ calls' = Append(calls, NewCall("createSession", "create.remote"))
    /\ UNCHANGED <<managerVars, hookVars, peerConnections, remoteSessions>>

\* Lines 25-30: the service answered; a WebRTCManager and its peer connection are
\* made and stored, and setRemoteDescription is awaited.
createSessionRemoteResolved(i) ==
    /\ i \in 1..Len(calls) /\ calls[i].at = "create.remote"
    /\ \E k \in FreshSessions :
          /\ remoteSessions' = [remoteSessions EXCEPT ![k].created = TRUE]
          /\ webRTCManager' = k
          /\ peerConnections' = [peerConnections EXCEPT ![k].state = "open"]
          /\ calls' = [calls EXCEPT ![i].at = "create.sdp", ![i].k = k, ![i].sid = k]
    /\ UNCHANGED <<sessionInfo, isConnected, hookVars>>

\* heygenService.createSession threw (part_006 143-150).
createSessionRemoteRejected(i) ==
    /\ i \in 1..Len(calls) /\ calls[i].at = "create.remote"
    /\ calls' = [calls EXCEPT ![i] = Threw(@, "rejected")]
    /\ UNCHANGED <<managerVars, hookVars, peerConnections, remoteSessions>>

\* Lines 32-38, then the hook's lines 38-44.
setRemoteDescriptionResolved(i) ==
    /\ i \in 1..Len(calls) /\ calls[i].at = "create.sdp"
    /\ sessionInfo' = calls[i].sid
    /\ isConnected' = FALSE
    /\ hookPeerConnection' = calls[i].k
    /\ hookSessionInfo' = calls[i].sid
    /\ hookIsConnected' = FALSE
    /\ calls' = [calls EXCEPT ![i].at = "ok"]
    /\ UNCHANGED <<webRTCManager, peerConnections, remoteSessions>>

\* peerConnection.setRemoteDescription rejected (part_008 33).
setRemoteDescriptionRejected(i) ==
    /\ i \in 1..Len(calls) /\ calls[i].at = "create.sdp"
    /\ calls' = [calls EXCEPT ![i] = Threw(@, "rejected")]
    /\ UNCHANGED <<managerVars, hookVars, peerConnections, remoteSessions>>

\* ---- startSession (SessionManager.js 48-83, useStreamingSession.js 53-60)
\* Lines 56-73 on the manager's peer connection: ondatachannel (the hook's callers
\* pass onTrack = null and a data-channel callback), the candidate handler, then
\* createAnswer.
StartHandlers(pc) ==
    LET a == [pc EXCEPT !.ondatachannel = TRUE]
        b == [a EXCEPT !.onicecandidate = TRUE]
    IN  [b EXCEPT !.answering = TRUE, !.handlerAtAnswer = b.onicecandidate]

\* Mutant: isConnected set when the answer is requested, before any await.
startSessionConnectsEarly ==
    /\ Len(calls) < MaxCalls
    /\ sessionInfo # Null /\ HasPeerConnection(webRTCManager)
    /\ peerConnections' = [peerConnections EXCEPT ![webRTCManager] = StartHandlers(@)]
    /\ calls' = Append(calls, [NewCall("startSession", "start.answer")
                                  EXCEPT !.k = webRTCManager])
    /\ isConnected' = TRUE
    /\ UNCHANGED <<sessionInfo, webRTCManager, hookVars, remoteSessions>>

\* The call up to its first await. Line 50 throws without a session or a manager;
\* line 61 assigns to null, a TypeError, when the manager's connection was closed.
startSession ==
    /\ Len(calls) < MaxCalls
    /\ IF sessionInfo = Null \/ webRTCManager = Null
       THEN /\ calls' = Append(calls, Threw(NewCall("startSession", "threw"),
                                            "Please create a connection first"))
            /\ UNCHANGED peerConnections
       ELSE IF ~HasPeerConnection(webRTCManager)
       THEN /\ calls' = Append(calls, Threw(NewCall("startSession", "threw"), "TypeError"))
            /\ UNCHANGED peerConnections
       ELSE /\ peerConnections' =
                  [peerConnections EXCEPT ![webRTCManager] = StartHandlers(@)]
            /\ calls' = Append(calls, [NewCall("startSession", "start.answer")
                                          EXCEPT !.k = webRTCManager])
    /\ UNCHANGED <<managerVars, hookVars, remoteSessions>>

\* part_008 44-45: peerConnection.createAnswer() resolved; this.peerConnection is
\* read again for setLocalDescription, and is null after close().
createAnswerResolved(i) ==
    /\ i \in 1..Len(calls) /\ calls[i].at = "start.answer"
    /\ calls' = [calls EXCEPT ![i] =
                    IF HasPeerConnection(calls[i].k)
                    THEN [@ EXCEPT !.at = "start.setlocal"]
                    ELSE Threw(@, "TypeError")]
    /\ UNCHANGED <<managerVars, hookVars, peerConnections, remoteSessions>>

createAnswerRejected(i) ==
    /\ i \in 1..Len(calls) /\ calls[i].at = "start.answer"
    /\ calls' = [calls EXCEPT ![i] = Threw(@, "rejected")]
    /\ UNCHANGED <<managerVars, hookVars, peerConnections, remoteSessions>>

\* part_008 46, then line 77: this.sessionInfo.session_id is read, a TypeError
\* when sessionInfo is null, and heygenService.startSession is issued.
setLocalDescriptionResolved(i) ==
    /\ i \in 1..Len(calls) /\ calls[i].at = "start.setlocal"
    /\ calls' = [calls EXCEPT ![i] =
                    IF sessionInfo # Null
                    THEN [@ EXCEPT !.at = "start.remote", !.sid = sessionInfo,
                                   !.steps = Append(@, "answer")]
                    ELSE Threw(@, "TypeError")]
    /\ UNCHANGED <<managerVars, hookVars, peerConnections, remoteSessions>>

setLocalDescriptionRejected(i) ==
    /\ i \in 1..Len(calls) /\ calls[i].at = "start.setlocal"
    /\ calls' = [calls EXCEPT ![i] = Threw(@, "rejected")]
    /\ UNCHANGED <<managerVars, hookVars, peerConnections, remoteSessions>>

\* Lines 80-82, then the hook's line 59. this.webRTCManager is read again, a
\* TypeError when null; configureJitterBuffer returns at once without a connection
\* (part_008 72-74).
startSessionRemoteResolved(i) ==
    /\ i \in 1..Len(calls) /\ calls[i].at = "start.remote"
    /\ remoteSessions' = [remoteSessions EXCEPT ![calls[i].sid].started = TRUE]
    /\ IF webRTCManager = Null
       THEN /\ calls' = [calls EXCEPT ![i] =
                            Threw([@ EXCEPT !.steps = Append(@, "ack")], "TypeError")]
            /\ UNCHANGED <<isConnected, hookIsConnected>>
       ELSE /\ calls' = [calls EXCEPT ![i].at = "ok",
                                      ![i].steps = @ \o <<"ack", "jitter">>,
                                      ![i].tuned = HasPeerConnection(webRTCManager)]
            /\ isConnected' = TRUE
            /\ hookIsConnected' = TRUE
    /\ UNCHANGED <<sessionInfo, webRTCManager, hookSessionInfo, hookPeerConnection,
                   peerConnections>>

\* heygenService.startSession threw (part_006 171-173).
startSessionRemoteRejected(i) ==
    /\ i \in 1..Len(calls) /\ calls[i].at = "start.remote"
    /\ calls' = [calls EXCEPT ![i] = Threw(@, "rejected")]
    /\ UNCHANGED <<managerVars, hookVars, peerConnections, remoteSessions>>

\* ---- closeSession (SessionManager.js 117-128, useStreamingSession.js 75-80)
\* WebRTCManager.close() (part_008 87-97): onicecandidate = null, close(), and the
\* manager forgets the connection; nothing when it holds none.
close(pc) ==
    IF pc.state = "open"
    THEN [pc EXCEPT !.onicecandidate = FALSE, !.state = "closed"]
    ELSE pc

\* The state a closeSession call finds when it follows a settled closeSession call
\* with nothing in flight.
SessionState == <<sessionInfo, webRTCManager, isConnected, hookSessionInfo,
                  hookPeerConnection, hookIsConnected, peerConnections>>

AfterClose ==
    IF /\ Len(calls) >= 1 /\ calls[Len(calls)].op = "closeSession"
       /\ Settled(calls[Len(calls)]) /\ calls[Len(calls)].quiet
    THEN <<SessionState>>
    ELSE <<>>

\* The call up to its first await. Without a session or a manager line 119 returns
\* and the hook clears its state (lines 77-79); otherwise the manager is closed and
\* heygenService.stopSession is issued.
closeSession ==
    /\ Len(calls) < MaxCalls
    /\ IF sessionInfo = Null \/ webRTCManager = Null
       THEN /\ calls' = Append(calls, [NewCall("closeSession", "ok")
                                          EXCEPT !.during = SuspendedStarts,
                                                 !.quiet = Quiet(0),
                                                 !.after = AfterClose])
            /\ hookPeerConnection' = Null
            /\ hookSessionInfo' = Null
            /\ hookIsConnected' = FALSE
            /\ UNCHANGED <<peerConnections, remoteSessions>>
       ELSE /\ peerConnections' = [peerConnections EXCEPT ![webRTCManager] = close(@)]
            /\ remoteSessions' = [remoteSessions EXCEPT ![sessionInfo].stopIssued = TRUE]
            /\ calls' = Append(calls, [NewCall("closeSession", "close.remote")
                                          EXCEPT !.k = webRTCManager, !.sid = sessionInfo,
                                                 !.during = SuspendedStarts,
                                                 !.after = AfterClose])
            /\ UNCHANGED hookVars
    /\ UNCHANGED managerVars

\* Lines 125-127, then the hook's lines 77-79.
stopSessionResolved(i) ==
    /\ i \in 1..Len(calls) /\ calls[i].at = "close.remote"
    /\ sessionInfo' = Null
    /\ webRTCManager' = Null
    /\ isConnected' = FALSE
    /\ hookPeerConnection' = Null
    /\ hookSessionInfo' = Null
    /\ hookIsConnected' = FALSE
    /\ calls' = [calls EXCEPT ![i].at = "ok", ![i].quiet = Quiet(i)]
    /\ UNCHANGED <<peerConnections, remoteSessions>>

\* heygenService.stopSession threw (part_006 234-236): nothing after the await runs.
stopSessionRejected(i) ==
    /\ i \in 1..Len(calls) /\ calls[i].at = "close.remote"
    /\ calls' = [calls EXCEPT ![i] = Threw([@ EXCEPT !.quiet = Quiet(i)], "rejected")]
    /\ UNCHANGED <<managerVars, hookVars, peerConnections, remoteSessions>>

\* ---- sendTask (SessionManager.js 90-95, useStreamingSession.js 67-69)
\* Line 92 throws without a session; line 94 transmits to sessionInfo.session_id.
sendTask ==
    /\ lastSpeak' =
          IF sessionInfo = Null
          THEN [NoSpeak EXCEPT !.n = 1]
          ELSE [n |-> 1, session |-> sessionInfo, connected |-> isConnected,
                live |-> HasPeerConnection(webRTCManager),
                closing |-> \E j \in 1..Len(calls) :
                               /\ calls[j].at = "close.remote"
                               /\ calls[j].sid = sessionInfo]

\* ---- the candidate handler (part_008 59-63, SessionManager.js 66-68)
\* An icecandidate event with a candidate on peer connection k. With a handler
\* installed, this.sessionInfo.session_id is read, a TypeError when sessionInfo is
\* null, and the hook's onIceCandidate calls submitIceCandidate (line 55).
onicecandidate(k) ==
    /\ peerConnections[k].state # "none"
    /\ lastCandidate' =
          [n |-> 1, pc |-> k,
           live |-> peerConnections[k].state = "open",
           answering |-> peerConnections[k].answering,
           afterClose |-> \E j \in 1..Len(calls) :
                             calls[j].op = "closeSession" /\ calls[j].at = "ok",
           session |-> sessionInfo,
           submitted |-> IF peerConnections[k].onicecandidate THEN sessionInfo ELSE Null,
           threw |-> peerConnections[k].onicecandidate /\ sessionInfo = Null]

\* ---------------------------------------------- session lifecycle: the runs
\* The hook's four functions called in any order and at any time (App.jsx binds
\* each to a button), every await settling either way, and candidate events.
sessOther == <<progVars, logHist, fwdHist, unloadVars, captureVars, fedHist, otherVars>>

CreateSession == createSession /\ UNCHANGED <<sessHist, sessOther>>

CreateSessionRemoteResolved == \E i \in 1..MaxCalls :
    createSessionRemoteResolved(i) /\ UNCHANGED <<sessHist, sessOther>>

CreateSessionRemoteRejected == \E i \in 1..MaxCalls :
    createSessionRemoteRejected(i) /\ UNCHANGED <<sessHist, sessOther>>

SetRemoteDescriptionResolved == \E i \in 1..MaxCalls :
    setRemoteDescriptionResolved(i) /\ UNCHANGED <<sessHist, sessOther>>

SetRemoteDescriptionRejected == \E i \in 1..MaxCalls :
    setRemoteDescriptionRejected(i) /\ UNCHANGED <<sessHist, sessOther>>

StartSession == startSession /\ UNCHANGED <<sessHist, sessOther>>

CreateAnswerResolved == \E i \in 1..MaxCalls :
    createAnswerResolved(i) /\ UNCHANGED <<sessHist, sessOther>>

CreateAnswerRejected == \E i \in 1..MaxCalls :
    createAnswerRejected(i) /\ UNCHANGED <<sessHist, sessOther>>

SetLocalDescriptionResolved == \E i \in 1..MaxCalls :
    setLocalDescriptionResolved(i) /\ UNCHANGED <<sessHist, sessOther>>

SetLocalDescriptionRejected == \E i \in 1..MaxCalls :
    setLocalDescriptionRejected(i) /\ UNCHANGED <<sessHist, sessOther>>

StartSessionRemoteResolved == \E i \in 1..MaxCalls :
    startSessionRemoteResolved(i) /\ UNCHANGED <<sessHist, sessOther>>

StartSessionRemoteRejected == \E i \in 1..MaxCalls :
    startSessionRemoteRejected(i) /\ UNCHANGED <<sessHist, sessOther>>

CloseSession == closeSession /\ UNCHANGED <<sessHist, sessOther>>

StopSessionResolved == \E i \in 1..MaxCalls :
    stopSessionResolved(i) /\ UNCHANGED <<sessHist, sessOther>>

StopSessionRejected == \E i \in 1..MaxCalls :
    stopSessionRejected(i) /\ UNCHANGED <<sessHist, sessOther>>

SendTask == sendTask /\ UNCHANGED <<sessVars, lastCandidate, sessOther>>

IceCandidate == \E k \in SessionSlots :
    onicecandidate(k) /\ UNCHANGED <<sessVars, lastSpeak, sessOther>>

NextSession ==
    \/ CreateSession
    \/ CreateSessionRemoteResolved
    \/ CreateSessionRemoteRejected
    \/ SetRemoteDescriptionResolved
    \/ SetRemoteDescriptionRejected
    \/ StartSession
    \/ CreateAnswerResolved
    \/ CreateAnswerRejected
    \/ SetLocalDescriptionResolved
    \/ SetLocalDescriptionRejected
    \/ StartSessionRemoteResolved
    \/ StartSessionRemoteRejected
    \/ CloseSession
    \/ StopSessionResolved
    \/ StopSessionRejected
    \/ SendTask
    \/ IceCandidate

SpecSession == Init /\ [][NextSession]_vars

\* -------------------------------------------- session lifecycle: properties
AllSettled == \A j \in 1..Len(calls) : Settled(calls[j])

\* sessionInfo null, webRTCManager null, isConnected false, and no handler left on
\* a peer connection that is not closed.
ManagerClosed ==
    /\ sessionInfo = Null /\ webRTCManager = Null /\ ~isConnected
    /\ \A k \in SessionSlots :
          peerConnections[k].state = "open" =>
              ~peerConnections[k].onicecandidate /\ ~peerConnections[k].ondatachannel

\* C11: when closeSession was invoked while a startSession call was suspended at
\* one of its awaits, and both have settled with no call made since, neither threw
\* and the manager is closed.
C11_TeardownBeforeStartCompletes ==
    LET c == Len(calls)
    IN  (/\ c >= 1 /\ calls[c].op = "closeSession" /\ calls[c].during # {}
         /\ AllSettled)
        => /\ \A j \in calls[c].during \cup {c} : calls[j].at = "ok"
           /\ ManagerClosed

\* C12: an icecandidate event that arrives on a closed peer connection, or once a
\* closeSession call has completed and left sessionInfo null, causes no
\* submitIceCandidate call, no read of the cleared session and no exception.
C12_CandidateAfterCloseIsNoOp ==
    (/\ lastCandidate.n = 1
     /\ \/ ~lastCandidate.live
        \/ lastCandidate.afterClose /\ lastCandidate.session = Null)
    => lastCandidate.submitted = Null /\ ~lastCandidate.threw

\* A closeSession call made after call i that closed a session has completed.
ClosedSince(i) ==
    \E j \in (i + 1)..Len(calls) :
        calls[j].op = "closeSession" /\ calls[j].sid # Null /\ calls[j].at = "ok"

\* C13: the step that resumes a createSession or startSession call after the
\* session was closed changes no state of the manager or of the hook, and
\* isConnected is never true, in either, while sessionInfo is null.
C13_InFlightCallsNoOpAfterClose ==
    [][/\ \A i \in 1..Len(calls) :
             (ClosedSince(i) /\ calls'[i] # calls[i]) =>
                 UNCHANGED <<managerVars, hookVars>>
       /\ isConnected' => sessionInfo' # Null
       /\ hookIsConnected' => hookSessionInfo' # Null]_vars

\* Once a closeSession call that directly followed a settled closeSession call has
\* settled, with no call made since, it has not thrown and the state is the one
\* the earlier call left.
RepeatedCloseChangesNothing ==
    LET c == Len(calls)
    IN  (/\ c >= 1 /\ calls[c].op = "closeSession" /\ calls[c].after # <<>>
         /\ Settled(calls[c]))
        => /\ calls[c].at = "ok"
           /\ SessionState = calls[c].after[1]

\* C14: a closeSession call made when no session exists makes no remote call,
\* changes no state and does not throw; and the state after one more closeSession
\* call is the state after the one before.
C14_CloseIsIdempotent ==
    [][/\ (/\ Len(calls') > Len(calls)
           /\ calls'[Len(calls')].op = "closeSession"
           /\ sessionInfo = Null)
          => /\ calls'[Len(calls')].at = "ok"
             /\ UNCHANGED <<managerVars, hookVars, peerConnections, remoteSessions>>
       /\ RepeatedCloseChangesNothing']_vars

\* C15: closeSession never rejects, and once a closeSession call that issued the
\* remote stop has settled, with nothing else in flight and no call made since,
\* the manager's and the hook's state are reset.
C15_TeardownFailuresSwallowed ==
    /\ \A j \in 1..Len(calls) : calls[j].op = "closeSession" => calls[j].at # "threw"
    /\ LET c == Len(calls)
       IN  (/\ c >= 1 /\ calls[c].op = "closeSession" /\ calls[c].sid # Null
            /\ AllSettled)
           => /\ sessionInfo = Null /\ webRTCManager = Null /\ ~isConnected
              /\ hookSessionInfo = Null /\ hookPeerConnection = Null
              /\ ~hookIsConnected

\* With no call in flight, a peer connection that is not closed is the one the
\* manager references, and a remote session that was created and for which no stop
\* was issued is the manager's.
NothingLeftBehind ==
    AllSettled =>
        \A k \in SessionSlots :
            /\ peerConnections[k].state = "open" => webRTCManager = k
            /\ (remoteSessions[k].created /\ ~remoteSessions[k].stopIssued)
                  => (sessionInfo = k \/ webRTCManager = k)

\* C16: a createSession call made while a session exists closes that session's
\* peer connection and issues a remote stop for its id, and after any sequence of
\* calls nothing is left that the manager no longer references and never closed.
C16_SingleActiveSession ==
    [][/\ (/\ Len(calls') > Len(calls)
           /\ calls'[Len(calls')].op = "createSession"
           /\ sessionInfo # Null /\ webRTCManager # Null)
          => /\ peerConnections'[webRTCManager].state = "closed"
             /\ remoteSessions'[sessionInfo].stopIssued
       /\ NothingLeftBehind']_vars

\* C17: createAnswer is invoked on a peer connection only with the candidate
\* handler installed, and every candidate event on an open connection that has
\* begun its answer is passed to submitIceCandidate.
C17_CandidateCallbackBeforeAnswer ==
    /\ \A k \in SessionSlots :
          peerConnections[k].answering => peerConnections[k].handlerAtAnswer
    /\ (lastCandidate.n = 1 /\ lastCandidate.live /\ lastCandidate.answering)
          => lastCandidate.submitted # Null /\ ~lastCandidate.threw

\* C18: isConnected, in the manager and in the hook, becomes true only in the step
\* that ends a startSession call which created the answer, received the
\* acknowledgement of the remote start and configured the jitter buffer, in that
\* order; a startSession call that rejects leaves isConnected as it was; and a
\* startSession call made without a session rejects with 'Please create a
\* connection first' and changes no state.
C18_ConnectedOnlyAfterStart ==
    [][/\ ((isConnected' /\ ~isConnected) \/ (hookIsConnected' /\ ~hookIsConnected))
          => \E i \in 1..Len(calls) :
                /\ calls[i].op = "startSession" /\ ~Settled(calls[i])
                /\ calls'[i].at = "ok"
                /\ calls'[i].steps = <<"answer", "ack", "jitter">>
       /\ \A i \in 1..Len(calls') :
             (/\ calls'[i].op = "startSession" /\ calls'[i].at = "threw"
              /\ (i > Len(calls) \/ calls[i].at # "threw"))
             => /\ isConnected' = isConnected /\ hookIsConnected' = hookIsConnected
                /\ (i > Len(calls) /\ sessionInfo = Null)
                      => /\ calls'[i].err = "Please create a connection first"
                         /\ UNCHANGED <<managerVars, hookVars, peerConnections,
                                        remoteSessions>>]_vars

\* Both kinds of startSession call have happened: one made without a session, and
\* one that ran to the end and set isConnected in the manager and the hook.
C18_Witness ==
    /\ isConnected /\ hookIsConnected
    /\ \E i, j \in 1..Len(calls) :
          /\ calls[i].op = "startSession" /\ calls[i].at = "ok" /\ calls[i].tuned
          /\ calls[j].op = "startSession"
          /\ calls[j].err = "Please create a connection first"

\* C19: SessionManager.sendTask transmits only to a session whose startSession has
\* completed (isConnected), whose peer connection is open and which is not being
\* closed.
C19_SpeakOnlyWhenConnected ==
    lastSpeak.session # Null =>
        lastSpeak.connected /\ lastSpeak.live /\ ~lastSpeak.closing

\* C20: once a createSession or startSession call has rejected at
\* setRemoteDescription, createAnswer, setLocalDescription or the remote start, with
\* nothing in flight and no call made since, the manager is closed and a stop was
\* issued for the session.
C20_SignalingFailureCloses ==
    LET c == Len(calls)
    IN  (/\ c >= 1 /\ calls[c].op \in {"createSession", "startSession"}
         /\ calls[c].at = "threw" /\ calls[c].err = "rejected"
         /\ calls[c].k # Null /\ AllSettled)
        => /\ ManagerClosed
           /\ \A k \in SessionSlots :
                 remoteSessions[k].created => remoteSessions[k].stopIssued

\* ------------------------------------------------------- unload teardown
\* navigator.sendBeacon returns true (queued) or false (refused), or throws where
\* it is missing; the keepalive fetch resolves, rejects, or throws when called.
BeaconOutcomes == {"queued", "refused", "threw"}
FetchOutcomes == {"resolved", "rejected", "threw"}

\* Mutant: the keepalive fetch is issued whatever sendBeacon returned.
stopSessionSyncAlwaysFetch(sessionId, beacon, fetch) ==
    IF sessionId = Null
    THEN [beacons |-> 0, fetches |-> 0, threw |-> FALSE, stopped |-> FALSE]
    ELSE [beacons |-> 1, fetches |-> 1, threw |-> FALSE,
          stopped |-> beacon = "queued" \/ fetch = "resolved"]

\* HeyGenService.stopSessionSync(sessionId), part_006 lines 247-279. Line 248
\* returns for an empty id. Line 260 issues the beacon; a throw there is caught at
\* line 276. Lines 262-275 issue the fetch when sendBeacon returned false; its
\* rejection is swallowed at line 272 and a throw is caught at line 276. The result
\* tells what was issued, whether an exception left the function and whether the
\* service received a stop request.
stopSessionSync(sessionId, beacon, fetch) ==
    IF sessionId = Null
    THEN [beacons |-> 0, fetches |-> 0, threw |-> FALSE, stopped |-> FALSE]
    ELSE IF beacon = "refused"
    THEN [beacons |-> 1, fetches |-> 1, threw |-> FALSE, stopped |-> fetch = "resolved"]
    ELSE [beacons |-> 1, fetches |-> 0, threw |-> FALSE, stopped |-> beacon = "queued"]

\* The effect of a stopSessionSync call on the service and its record.
Transmit(sessionId, beacon, fetch, handler) ==
    LET r == stopSessionSync(sessionId, beacon, fetch)
    IN  /\ remoteSessions' =
              IF r.stopped THEN [remoteSessions EXCEPT ![sessionId].stopIssued = TRUE]
              ELSE remoteSessions
        /\ lastUnload' = [n |-> 1, handler |-> handler, session |-> hookSessionInfo,
                          called |-> TRUE, sid |-> sessionId,
                          beacon |-> IF sessionId = Null THEN "none" ELSE beacon,
                          beacons |-> r.beacons, fetches |-> r.fetches,
                          threw |-> r.threw]

\* handleBeforeUnload, part_009 lines 108-117: line 110 tests the hook's sessionInfo
\* and its session_id, line 111 passes that id. The page is unloaded afterwards.
handleBeforeUnload(beacon, fetch) ==
    /\ lastUnload.n = 0
    /\ IF hookSessionInfo # Null
       THEN Transmit(hookSessionInfo, beacon, fetch, TRUE)
       ELSE /\ lastUnload' = [NoUnload EXCEPT !.n = 1, !.handler = TRUE]
            /\ UNCHANGED remoteSessions
    /\ UNCHANGED <<managerVars, hookVars, peerConnections, calls>>

\* A call of stopSessionSync with any argument, the empty id included.
stopSessionSyncCall(sessionId, beacon, fetch) ==
    /\ lastUnload.n = 0
    /\ Transmit(sessionId, beacon, fetch, FALSE)
    /\ UNCHANGED <<managerVars, hookVars, peerConnections, calls>>

BeforeUnload == \E b \in BeaconOutcomes, f \in FetchOutcomes :
        /\ handleBeforeUnload(b, f)
        /\ UNCHANGED <<progVars, logHist, fwdHist, sessHist, captureVars, fedHist, otherVars>>

StopSessionSync == \E k \in SessionSlots \cup {Null}, b \in BeaconOutcomes,
                      f \in FetchOutcomes :
        /\ stopSessionSyncCall(k, b, f)
        /\ UNCHANGED <<progVars, logHist, fwdHist, sessHist, captureVars, fedHist, otherVars>>

\* The session lifecycle up to the moment the page is unloaded.
NextUnload ==
    \/ /\ lastUnload.n = 0
       /\ \/ CreateSession
          \/ CreateSessionRemoteResolved
          \/ CreateSessionRemoteRejected
          \/ SetRemoteDescriptionResolved
          \/ SetRemoteDescriptionRejected
          \/ StartSession
          \/ CreateAnswerResolved
          \/ CreateAnswerRejected
          \/ SetLocalDescriptionResolved
          \/ SetLocalDescriptionRejected
          \/ StartSessionRemoteResolved
          \/ StartSessionRemoteRejected
          \/ CloseSession
          \/ StopSessionResolved
          \/ StopSessionRejected
    \/ BeforeUnload
    \/ StopSessionSync

SpecUnload == Init /\ [][NextUnload]_vars

\* C21: stopSessionSync lets no exception out; with an empty id it issues nothing;
\* with an id it issues one beacon and, exactly when the beacon was refused, one
\* keepalive fetch; and the beforeunload handler calls it exactly when the hook
\* holds a session, with that session's id.
C21_UnloadTeardownBestEffort ==
    lastUnload.n = 1 =>
        /\ ~lastUnload.threw
        /\ (lastUnload.called /\ lastUnload.sid = Null)
              => lastUnload.beacons = 0 /\ lastUnload.fetches = 0
        /\ (lastUnload.called /\ lastUnload.sid # Null)
              => /\ lastUnload.beacons = 1
                 /\ lastUnload.fetches = IF lastUnload.beacon = "refused" THEN 1 ELSE 0
        /\ lastUnload.handler
              => /\ lastUnload.called <=> lastUnload.session # Null
                 /\ lastUnload.called => lastUnload.sid = lastUnload.session

\* The handler found a session, sendBeacon refused and the keepalive fetch went out.
C21_Witness ==
    /\ lastUnload.n = 1 /\ lastUnload.handler /\ lastUnload.called
    /\ lastUnload.beacon = "refused" /\ lastUnload.fetches = 1

\* ----------------------------------------------------------- voice capture
\* useSpeechRecognition (part_001) in a browser that has SpeechRecognition, after
\* the mount effect of lines 35-158 has run.
TransientErrors == {"no-speech", "aborted"}
FatalErrors == {"not-allowed", "service-not-allowed", "network", "service-unavailable"}
ErrorCodes == TransientErrors \cup FatalErrors \cup {"audio-capture"}

\* The message of the exception recognition.start() throws on a recognizer that
\* has not ended (InvalidStateError); it does not contain 'not-allowed' (line 268).
StartFailed == "InvalidStateError"

Range(q) == {q[i] : i \in 1..Len(q)}

\* setTimeout returns an id no pending timer has.
FreshTimer == CHOOSE k \in 1..MaxTimers : k \notin Range(timers) /\
                  \A j \in 1..MaxTimers : j \notin Range(timers) => k <= j

\* clearTimeout(id): nothing happens for an id that is not pending.
ClearTimeout(q, id) == SelectSeq(q, LAMBDA t : t # id)

\* getUserMedia resolves with a stream no one holds yet.
FreshStream(live) == CHOOSE k \in 1..MaxStreams : k \notin live /\
                         \A j \in 1..MaxStreams : j \notin live => k <= j

\* Mutant: the restart is armed whatever autoStartRef holds.
onendAlwaysRestarts ==
    /\ recognition = "running"
    /\ recognition' = "idle"
    /\ Len(timers) < MaxTimers
    /\ timers' = Append(timers, FreshTimer)
    /\ restartTimeoutRef' = FreshTimer
    /\ UNCHANGED <<isListening, error, autoStartRef>>

\* recognition.onend, lines 97-123. The recognizer has ended; with autoStartRef set
\* line 104 arms the restart timer and stores its id, whatever the ref held, and
\* isListening is left alone; otherwise line 121 clears isListening.
onend ==
    /\ recognition = "running"
    /\ recognition' = "idle"
    /\ IF autoStartRef
       THEN /\ Len(timers) < MaxTimers
            /\ timers' = Append(timers, FreshTimer)
            /\ restartTimeoutRef' = FreshTimer
            /\ UNCHANGED isListening
       ELSE /\ isListening' = FALSE
            /\ UNCHANGED <<timers, restartTimeoutRef>>
    /\ UNCHANGED <<error, autoStartRef>>

\* The callback of the restart timer, lines 104-117. The timers all wait 300 ms, so
\* they fire in the order they were armed. Line 107 starts the recognizer, which
\* throws unless the recognizer has ended; lines 114-115 then give up. The ref
\* keeps the id of the timer that fired.
restartTimeout ==
    /\ timers # <<>>
    /\ timers' = Tail(timers)
    /\ IF recognition = "idle"
       THEN /\ recognition' = "running"
            /\ isListening' = TRUE
            /\ UNCHANGED autoStartRef
       ELSE /\ isListening' = FALSE
            /\ autoStartRef' = FALSE
            /\ UNCHANGED recognition
    /\ UNCHANGED <<error, restartTimeoutRef>>

\* Mutant: every error is surfaced, the transient ones included.
onerrorSurfacesAll(code) ==
    /\ recognition = "running"
    /\ error' = code
    /\ IF code \in FatalErrors
       THEN autoStartRef' = FALSE /\ isListening' = FALSE
       ELSE UNCHANGED <<autoStartRef, isListening>>
    /\ UNCHANGED <<restartTimeoutRef, recognition, timers>>

\* recognition.onerror, lines 126-145. Line 130 surfaces every error but 'no-speech'
\* and 'aborted'; lines 135-143 disable the restart and clear isListening on the
\* four fatal codes. No timer is cleared.
onerror(code) ==
    /\ recognition = "running"
    /\ error' = IF code \in TransientErrors THEN error ELSE code
    /\ IF code \in FatalErrors
       THEN autoStartRef' = FALSE /\ isListening' = FALSE
       ELSE UNCHANGED <<autoStartRef, isListening>>
    /\ UNCHANGED <<restartTimeoutRef, recognition, timers>>

\* recognition.onspeechstart, lines 148-151.
onspeechstart ==
    /\ recognition = "running"
    /\ error' = NoError
    /\ UNCHANGED <<isListening, autoStartRef, restartTimeoutRef, recognition, timers>>

\* startListening from line 230 on. SpeechRecognition has no state attribute, so
\* the test of line 238 fails and line 258 starts the recognizer; when that throws
\* lines 262-265 surface the message, clear isListening and disable the restart.
\* No pending restart timer is cleared.
startRecognition ==
    /\ IF recognition = "idle"
       THEN /\ recognition' = "running"
            /\ error' = NoError
            /\ autoStartRef' = TRUE
            /\ isListening' = TRUE
       ELSE /\ error' = StartFailed
            /\ autoStartRef' = FALSE
            /\ isListening' = FALSE
            /\ UNCHANGED recognition
    /\ UNCHANGED <<restartTimeoutRef, timers>>

\* startListening up to its first await, lines 185-198: without a held stream it
\* awaits getUserMedia, with one it runs on from line 230 at once.
startListening ==
    IF echoCancellationStreamRef = Null
    THEN /\ pendingListen < MaxPending
         /\ pendingListen' = pendingListen + 1
         /\ UNCHANGED <<recVars, echoCancellationStreamRef, micStreams>>
    ELSE /\ startRecognition
         /\ UNCHANGED micVars

\* getUserMedia resolved, lines 198-223: line 223 stores the stream, whatever the
\* ref holds by now.
micStreamResolved ==
    /\ pendingListen > 0
    /\ Cardinality(micStreams) < MaxStreams
    /\ pendingListen' = pendingListen - 1
    /\ micStreams' = micStreams \cup {FreshStream(micStreams)}
    /\ echoCancellationStreamRef' = FreshStream(micStreams)
    /\ startRecognition

\* getUserMedia rejected, lines 224-227: the call goes on without a stream.
micStreamRejected ==
    /\ pendingListen > 0
    /\ pendingListen' = pendingListen - 1
    /\ startRecognition
    /\ UNCHANGED <<echoCancellationStreamRef, micStreams>>

\* stopListening, lines 277-301. Lines 280-283 clear the timer the ref names; line
\* 286 stops the recognizer, whose 'end' event follows later; lines 293-297 stop
\* the tracks of the held stream and forget it.
stopListening ==
    /\ autoStartRef' = FALSE
    /\ timers' = IF restartTimeoutRef # Null THEN ClearTimeout(timers, restartTimeoutRef)
                 ELSE timers
    /\ restartTimeoutRef' = Null
    /\ micStreams' = micStreams \ {echoCancellationStreamRef}
    /\ echoCancellationStreamRef' = Null
    /\ isListening' = FALSE
    /\ UNCHANGED <<error, recognition, pendingListen>>

\* ------------------------------------------------------------------ webcam
\* startWebcam up to its await, useWebcam.js lines 16-18.
startWebcam ==
    /\ pendingWebcam < MaxPending
    /\ pendingWebcam' = pendingWebcam + 1
    /\ UNCHANGED <<stream, isActive, webcamError, camStreams>>

\* getUserMedia resolved, lines 27-34, and the render that follows: the cleanup of
\* the effect of lines 68-74 stops the tracks of the stream held before.
camStreamResolved ==
    /\ pendingWebcam > 0
    /\ Cardinality(camStreams) < MaxStreams
    /\ pendingWebcam' = pendingWebcam - 1
    /\ stream' = FreshStream(camStreams)
    /\ camStreams' = (camStreams \cup {FreshStream(camStreams)}) \ {stream}
    /\ isActive' = TRUE
    /\ webcamError' = NoError

\* getUserMedia rejected, lines 35-38.
camStreamRejected ==
    /\ pendingWebcam > 0
    /\ pendingWebcam' = pendingWebcam - 1
    /\ webcamError' = "Failed to access webcam"
    /\ isActive' = FALSE
    /\ UNCHANGED <<stream, camStreams>>

\* stopWebcam, lines 44-54.
stopWebcam ==
    /\ IF stream # Null
       THEN /\ camStreams' = camStreams \ {stream}
            /\ stream' = Null
            /\ isActive' = FALSE
       ELSE UNCHANGED <<stream, isActive, camStreams>>
    /\ UNCHANGED <<webcamError, pendingWebcam>>

\* ------------------------------------------------------ capture histories
capOther == <<progVars, logHist, fwdHist, sessVars, sessHist, unloadVars, fedHist, otherVars>>

ObserveCap(op, code, started, threw, armed, device, liveBefore) ==
    lastCap' = [op |-> op, code |-> code, started |-> started, threw |-> threw,
                armed |-> armed, device |-> device, liveBefore |-> liveBefore]

\* An explicit start: every pending timer has now been followed by one, and a
\* failed restart or a stop() has been followed up.
ObserveStart ==
    /\ restarted' = Range(timers)
    /\ since' = [since EXCEPT !.restartFailed = FALSE, !.stopped = FALSE,
                              !.struck = {},
                              !.overtaken = IF lastCap'.op = "getUserMedia" /\ @ > 0
                                            THEN @ - 1 ELSE @]
    /\ UNCHANGED disturbed

StartListening ==
    /\ startListening
    /\ ObserveCap("startListening", "", echoCancellationStreamRef # Null,
                  echoCancellationStreamRef # Null /\ recognition # "idle",
                  Null, "", 0)
    /\ ObserveStart
    /\ UNCHANGED <<camVars, capOther>>

MicStreamResolved ==
    /\ micStreamResolved
    /\ ObserveCap("getUserMedia", "", TRUE, recognition # "idle", Null,
                  "microphone", Cardinality(micStreams))
    /\ ObserveStart
    /\ UNCHANGED <<camVars, capOther>>

MicStreamRejected ==
    /\ micStreamRejected
    /\ ObserveCap("getUserMedia", "rejected", TRUE, recognition # "idle", Null, "", 0)
    /\ ObserveStart
    /\ UNCHANGED <<camVars, capOther>>

StopListening ==
    /\ stopListening
    /\ ObserveCap("stopListening", "", FALSE, FALSE, Null, "", 0)
    /\ disturbed' = Range(timers')
    /\ restarted' = restarted \cap Range(timers')
    /\ since' = [since EXCEPT !.stopped = TRUE, !.struck = @ \cap Range(timers'),
                              !.overtaken = pendingListen]
    /\ UNCHANGED <<camVars, capOther>>

RecognitionEnd ==
    /\ onend
    /\ ObserveCap("end", "", FALSE, FALSE,
                  IF autoStartRef THEN FreshTimer ELSE Null, "", 0)
    /\ since' = [since EXCEPT !.fatal = FALSE]
    /\ UNCHANGED <<disturbed, restarted, micVars, camVars, capOther>>

RecognitionError == \E code \in ErrorCodes :
    /\ onerror(code)
    /\ ObserveCap("error", code, FALSE, FALSE, Null, "", 0)
    /\ disturbed' = IF code \in FatalErrors THEN Range(timers) ELSE disturbed
    /\ since' = IF code \in FatalErrors
                THEN [since EXCEPT !.fatal = TRUE, !.struck = Range(timers)]
                ELSE since
    /\ UNCHANGED <<restarted, micVars, camVars, capOther>>

SpeechStart ==
    /\ onspeechstart
    /\ ObserveCap("speechstart", "", FALSE, FALSE, Null, "", 0)
    /\ UNCHANGED <<disturbed, restarted, since, micVars, camVars, capOther>>

RestartTimeout ==
    /\ restartTimeout
    /\ ObserveCap("timer", "", TRUE, recognition # "idle", Null, "", 0)
    /\ disturbed' = disturbed \ {Head(timers)}
    /\ restarted' = restarted \ {Head(timers)}
    /\ since' = [since EXCEPT !.restartFailed = @ \/ recognition # "idle",
                              !.struck = @ \ {Head(timers)}]
    /\ UNCHANGED <<micVars, camVars, capOther>>

StartWebcam ==
    /\ startWebcam
    /\ ObserveCap("startWebcam", "", FALSE, FALSE, Null, "", 0)
    /\ UNCHANGED <<recVars, micVars, disturbed, restarted, since, capOther>>

CamStreamResolved ==
    /\ camStreamResolved
    /\ ObserveCap("getUserMedia", "", FALSE, FALSE, Null, "camera",
                  Cardinality(camStreams))
    /\ UNCHANGED <<recVars, micVars, disturbed, restarted, since, capOther>>

CamStreamRejected ==
    /\ camStreamRejected
    /\ ObserveCap("getUserMedia", "rejected", FALSE, FALSE, Null, "", 0)
    /\ UNCHANGED <<recVars, micVars, disturbed, restarted, since, capOther>>

StopWebcam ==
    /\ stopWebcam
    /\ ObserveCap("stopWebcam", "", FALSE, FALSE, Null, "", 0)
    /\ UNCHANGED <<recVars, micVars, disturbed, restarted, since, capOther>>

NextCapture ==
    \/ StartListening
    \/ MicStreamResolved
    \/ MicStreamRejected
    \/ StopListening
    \/ RecognitionEnd
    \/ RecognitionError
    \/ SpeechStart
    \/ RestartTimeout

SpecCapture == Init /\ [][NextCapture]_vars

NextStreams ==
    \/ StartListening
    \/ MicStreamResolved
    \/ MicStreamRejected
    \/ StopListening
    \/ RecognitionEnd
    \/ StartWebcam
    \/ CamStreamResolved
    \/ CamStreamRejected
    \/ StopWebcam

SpecStreams == Init /\ [][NextStreams]_vars

\* C22: an 'end' event with autoStartRef set arms a restart timer; while a timer
\* is pending that no stop() and no fatal error has followed, isListening is true;
\* and when such a timer fires the recognizer is started and isListening is true.
C22_CaptureAutoRestart ==
    [][/\ (lastCap'.op = "end" /\ autoStartRef)
          => /\ lastCap'.armed # Null
             /\ lastCap'.armed \in Range(timers')
             /\ restartTimeoutRef' = lastCap'.armed
       /\ \A t \in Range(timers') : t \notin disturbed' => isListening'
       /\ (lastCap'.op = "timer" /\ Head(timers) \notin disturbed)
          => lastCap'.started /\ isListening']_vars

\* C23: a fatal error leaves isListening and autoStartRef false, and the 'end'
\* event that follows it arms no timer and starts no recognizer.
C23_FatalErrorDisablesRestart ==
    [][/\ (lastCap'.op = "error" /\ lastCap'.code \in FatalErrors)
          => ~isListening' /\ ~autoStartRef'
       /\ (lastCap'.op = "end" /\ since.fatal)
          => /\ lastCap'.armed = Null /\ timers' = timers
             /\ recognition' = "idle" /\ ~isListening' /\ ~autoStartRef']_vars

\* A fatal error struck while capture was listening with the restart enabled, and
\* the recognizer has ended since.
C23_Witness ==
    /\ lastCap.op = "end" /\ lastCap.armed = Null
    /\ error \in FatalErrors /\ ~isListening /\ recognition = "idle"

\* C24: a 'no-speech' or 'aborted' error leaves isListening, autoStartRef, the
\* pending timers, the timer ref and the surfaced error as they were.
C24_TransientErrorsIgnored ==
    [][(lastCap'.op = "error" /\ lastCap'.code \in TransientErrors)
          => UNCHANGED <<isListening, autoStartRef, restartTimeoutRef, timers, error>>]_vars

\* A transient error arrived while capture was listening with the restart enabled
\* and an earlier error still surfaced.
C24_Witness ==
    /\ lastCap.op = "error" /\ lastCap.code \in TransientErrors
    /\ isListening /\ autoStartRef /\ error # NoError

\* C25: stopListening called while isListening is true leaves isListening and
\* autoStartRef false, no restart timer pending, and the held stream stopped and
\* forgotten; and an 'end' event after it, before any startListening, arms no timer.
C25_StopReturnsToIdle ==
    [][/\ (lastCap'.op = "stopListening" /\ isListening)
          => /\ ~isListening' /\ ~autoStartRef'
             /\ timers' = <<>> /\ restartTimeoutRef' = Null
             /\ echoCancellationStreamRef' = Null
             /\ echoCancellationStreamRef \notin micStreams'
       /\ (lastCap'.op = "end" /\ since.stopped)
          => lastCap'.armed = Null /\ timers' = timers]_vars

\* C26: when recognition.start() throws in the restart callback, isListening and
\* autoStartRef are false afterwards, and no restart callback runs from then to
\* the next startListening call.
C26_RestartFailureFallsBack ==
    [][/\ (lastCap'.op = "timer" /\ lastCap'.threw) => ~isListening' /\ ~autoStartRef'
       /\ lastCap'.op = "timer" => ~since.restartFailed]_vars

\* C27: no stream of a device is live when getUserMedia hands out a new one, at
\* most one stream per device is live, and stopListening and stopWebcam leave no
\* stream of their device live.
C27_CaptureStreamExclusivity ==
    [][/\ (lastCap'.op = "getUserMedia" /\ lastCap'.device # "")
          => lastCap'.liveBefore = 0
       /\ Cardinality(micStreams') <= 1 /\ Cardinality(camStreams') <= 1
       /\ lastCap'.op = "stopListening" => micStreams' = {}
       /\ lastCap'.op = "stopWebcam" => camStreams' = {}]_vars

\* ------------------------------------------------- fragments of any shape
\* The reconciler and the forwarder fed with every fragment, the empty and the
\* white-space ones included, each call recorded.
ObserveFed(sender, messageText) ==
    lastFed' = [sender |-> sender, blank |-> Trim(messageText) = <<>>,
                flip |-> ~lastFed.flip]

fedOther == <<sessVars, sessHist, unloadVars, captureVars, otherVars>>

FeedUser == \E t \in Fragments :
    /\ addUserMessageToChat(t)
    /\ ObserveFed("user", t)
    /\ UNCHANGED <<logHist, fwdHist, fedOther>>

FeedAgent == \E t \in Fragments, isUpdate \in BOOLEAN :
    /\ addAgentMessageToChat(t, isUpdate)
    /\ ObserveFed("agent", t)
    /\ UNCHANGED <<logHist, fwdHist, fedOther>>

SendSettled == \E i \in 1..MaxInflight :
    /\ SendTaskResolved(i) \/ SendTaskRejected(i)
    /\ UNCHANGED <<logHist, fwdHist, fedHist, fedOther>>

AudioSubscribed ==
    /\ handleTrackSubscribed("audio", TRUE)
    /\ UNCHANGED <<logHist, fwdHist, fedHist, fedOther>>

NextFragments ==
    \/ FeedUser
    \/ FeedAgent
    \/ SendSettled
    \/ AudioSubscribed

SpecFragments == Init /\ [][NextFragments]_vars

\* C28: a reconciler call with an empty or white-space-only fragment, for either
\* sender, leaves the log and the forwarding cursor as they were and passes
\* nothing to sendTask.
C28_EmptyFragmentsIgnored ==
    [][(lastFed'.flip # lastFed.flip /\ lastFed'.blank)
          => UNCHANGED <<chatMessages, lastSentToHeyGenRef, inflight>>]_vars

\* A blank agent fragment arrived with a message in the log, the cursor set and
\* the forwarding gate open.
C28_Witness ==
    /\ lastFed.blank /\ lastFed.sender = "agent"
    /\ chatMessages # <<>> /\ lastSentToHeyGenRef # <<>>
    /\ liveKitAudioActiveRef /\ heygenSessionId # NoSession

\* C29: the ids of the log are pairwise distinct, an id the reconciler makes is the
\* generated one with the suffixes 0, 1, ... appended, and no call changes the id
\* of a message already in the log.
C29_MessageIdsUnique ==
    [][/\ \A i, j \in 1..Len(chatMessages') :
             i # j => chatMessages'[i].id # chatMessages'[j].id
       /\ \A i \in 1..Len(chatMessages') :
             /\ chatMessages'[i].id[1] \in IdBases
             /\ \A k \in 2..Len(chatMessages'[i].id) : chatMessages'[i].id[k] = k - 2
       /\ \A i \in 1..Len(chatMessages) :
             /\ i <= Len(chatMessages')
             /\ chatMessages'[i].id = chatMessages[i].id]_vars

\* Three messages whose generated ids collided: one carries two suffixes.
C29_Witness ==
    /\ Len(chatMessages) = 3
    /\ \E i \in 1..3 : Len(chatMessages[i].id) = 3

\* C30: no reconciler call shortens the log, moves a message or changes a message
\* that is not the last one; the last one keeps its id and sender.
C30_AppendOnlyTailUpdates ==
    [][/\ Len(chatMessages') >= Len(chatMessages)
       /\ \A i \in 1..(Len(chatMessages) - 1) : chatMessages'[i] = chatMessages[i]
       /\ chatMessages # <<>>
          => /\ chatMessages'[Len(chatMessages)].id = chatMessages[Len(chatMessages)].id
             /\ chatMessages'[Len(chatMessages)].sender
                   = chatMessages[Len(chatMessages)].sender]_vars

\* An agent message superseded by a user message, with an agent message after it.
C30_Witness ==
    /\ Len(chatMessages) = 3
    /\ chatMessages[1].sender = "agent" /\ chatMessages[2].sender = "user"
    /\ chatMessages[3].sender = "agent" /\ chatMessages[3].text # chatMessages[1].text

\* ------------------------------------------------ continuation and appends
\* The index of the most recent message of a sender in a log, 0 when there is none.
SendersLast(log, sender) ==
    LET own == {i \in 1..Len(log) : log[i].sender = sender}
    IN  IF own = {} THEN 0 ELSE CHOOSE i \in own : \A j \in own : j <= i

\* C31: an agent fragment whose text starts with the text of the most recent agent
\* message of the log, wherever that message stands, updates that message in place
\* (same id, the fragment's text) and appends nothing.
C31_ContinuationAgainstSendersLast ==
    [][LET k == SendersLast(chatMessages, "agent")
       IN  (/\ lastLog' # lastLog /\ lastLog'.op = "agent"
            /\ k >= 1 /\ StartsWith(lastLog'.text, chatMessages[k].text))
           => /\ Len(chatMessages') = Len(chatMessages)
              /\ chatMessages'[k].id = chatMessages[k].id
              /\ chatMessages'[k].text = lastLog'.text]_vars

\* The fragment of the step is neither a continuation of its sender's most recent
\* message nor the text of any message of that sender in the log.
NewUtterance(log, sender, text) ==
    LET k == SendersLast(log, sender)
    IN  /\ k >= 1 => ~IsContinuation(text, Trim(log[k].text))
        /\ Count(log, sender, text) = 0

\* C32: on the transcription path (isUpdate = true) a fragment that is neither a
\* continuation of its sender's last message nor a duplicate is appended with an id
\* no message had; the log grows by one and every message that was there, the
\* sender's previous tail message included, keeps its id and text.
C32_NonContinuationAppends ==
    [][(/\ lastLog' # lastLog /\ lastLog'.op # "none"
        /\ NewUtterance(chatMessages, lastLog'.op, lastLog'.text))
       => /\ Len(chatMessages') = Len(chatMessages) + 1
          /\ \A i \in 1..Len(chatMessages) :
                /\ chatMessages'[i].id = chatMessages[i].id
                /\ chatMessages'[i].text = chatMessages[i].text
                /\ chatMessages'[Len(chatMessages')].id # chatMessages[i].id
          /\ chatMessages'[Len(chatMessages')].text = lastLog'.text
          /\ chatMessages'[Len(chatMessages')].sender = lastLog'.op]_vars

\* The messages of a log with a sender and text, and those of them stamped within
\* the recency window of a time.
Matching(log, sender, text) ==
    {i \in 1..Len(log) : log[i].sender = sender /\ log[i].text = text}

Recent(log, sender, text, time) ==
    {i \in Matching(log, sender, text) : Abs(time - log[i].timestampMs) < DupWindowMs}

\* C33: a fragment of either sender that is no continuation of its sender's last
\* message, and whose only matches (same sender, same text) in the log are older
\* than the recency window, is appended as a new message, not dropped.
C33_DuplicateDropWithinWindow ==
    [][LET S == lastLog'.op
           t == lastLog'.text
           k == SendersLast(chatMessages, S)
       IN  (/\ lastLog' # lastLog /\ S # "none"
            /\ k >= 1 => ~IsContinuation(t, Trim(chatMessages[k].text))
            /\ Matching(chatMessages, S, t) # {}
            /\ Recent(chatMessages, S, t, now) = {})
           => /\ Len(chatMessages') = Len(chatMessages) + 1
              /\ chatMessages'[Len(chatMessages')].text = t
              /\ chatMessages'[Len(chatMessages')].sender = S]_vars

\* ------------------------------------------------------ candidate forwarding
\* HeyGenService.submitIceCandidate(sessionId, candidate), part_006 lines 184-193:
\* one fetch is issued and not awaited; the result is the list of calls made.
submitIceCandidate(sessionId, candidate) ==
    Append(iceCalls, [session |-> sessionId, candidate |-> candidate, at |-> "pending"])

\* An icecandidate event on peer connection k (part_008 lines 59-63). The null
\* candidate that ends gathering fails the test of line 60. Any other candidate is
\* passed to the callback of SessionManager.js lines 65-67, which reads
\* this.sessionInfo.session_id, a TypeError when sessionInfo is null, and calls the
\* hook's onIceCandidate (useStreamingSession.js lines 54-56). A connection without
\* a handler drops the event.
icecandidate(k, endOfCandidates) ==
    /\ peerConnections[k].state # "none"
    /\ IF endOfCandidates
       THEN /\ UNCHANGED <<emitted, iceCalls>>
            /\ lastIce' = [pc |-> k, n |-> 0,
                           open |-> peerConnections[k].state = "open"
                                        /\ peerConnections[k].onicecandidate,
                           threw |-> FALSE, flip |-> ~lastIce.flip]
       ELSE /\ emitted < MaxCandidates
            /\ emitted' = emitted + 1
            /\ iceCalls' = IF peerConnections[k].onicecandidate /\ sessionInfo # Null
                           THEN submitIceCandidate(sessionInfo, <<k, emitted'>>)
                           ELSE iceCalls
            /\ lastIce' = [pc |-> k, n |-> emitted',
                           open |-> peerConnections[k].state = "open"
                                        /\ peerConnections[k].onicecandidate,
                           threw |-> peerConnections[k].onicecandidate
                                        /\ sessionInfo = Null,
                           flip |-> ~lastIce.flip]

\* The fetch of a submitIceCandidate call settles; .catch(() => {}) at line 192
\* swallows a rejection.
submitSettled(i, outcome) ==
    /\ i \in 1..Len(iceCalls) /\ iceCalls[i].at = "pending"
    /\ iceCalls' = [iceCalls EXCEPT ![i].at = outcome]
    /\ UNCHANGED <<emitted, lastIce>>

iceOther == <<progVars, logHist, fwdHist, sessVars, sessHist, unloadVars, captureVars,
              fedHist, trackVars, retryVars, appVars>>

CandidateEvent == \E k \in SessionSlots :
    icecandidate(k, FALSE) /\ UNCHANGED iceOther

EndOfCandidates == \E k \in SessionSlots :
    icecandidate(k, TRUE) /\ UNCHANGED iceOther

SubmitResolved == \E i \in 1..MaxCandidates :
    submitSettled(i, "resolved") /\ UNCHANGED iceOther

SubmitRejected == \E i \in 1..MaxCandidates :
    submitSettled(i, "rejected") /\ UNCHANGED iceOther

\* The session lifecycle, every await of it resolving, with the candidates its
\* peer connections emit and the fetches of their submissions.
NextCandidates ==
    \/ CreateSession
    \/ CreateSessionRemoteResolved
    \/ SetRemoteDescriptionResolved
    \/ StartSession
    \/ CreateAnswerResolved
    \/ SetLocalDescriptionResolved
    \/ StartSessionRemoteResolved
    \/ CloseSession
    \/ StopSessionResolved
    \/ CandidateEvent
    \/ EndOfCandidates
    \/ SubmitResolved
    \/ SubmitRejected

SpecCandidates == Init /\ [][NextCandidates]_vars

\* The calls made for one connection carry its candidates in emission order.
InEmissionOrder(q) ==
    \A i, j \in 1..Len(q) :
        (i < j /\ q[i].candidate[1] = q[j].candidate[1])
            => q[i].candidate[2] < q[j].candidate[2]

\* C34: every candidate event on an open connection with the handler installed
\* makes exactly one submitIceCandidate call, after the calls made before it, with
\* the candidate and the id of that connection's session; the null candidate makes
\* none; no event throws; and a fetch that settles, rejected or not, changes
\* nothing but its own outcome.
C34_CandidatesForwardedInOrder ==
    [][/\ (lastIce'.flip # lastIce.flip /\ lastIce'.n = 0)
             => iceCalls' = iceCalls /\ ~lastIce'.threw
       /\ (lastIce'.flip # lastIce.flip /\ lastIce'.n # 0 /\ lastIce'.open)
             => /\ ~lastIce'.threw
                /\ iceCalls' = Append(iceCalls,
                       [session |-> lastIce'.pc,
                        candidate |-> <<lastIce'.pc, lastIce'.n>>,
                        at |-> "pending"])
       /\ InEmissionOrder(iceCalls')
       /\ (lastIce'.flip = lastIce.flip /\ iceCalls' # iceCalls)
             => /\ Len(iceCalls') = Len(iceCalls)
                /\ \A i \in 1..Len(iceCalls) :
                      /\ iceCalls'[i].session = iceCalls[i].session
                      /\ iceCalls'[i].candidate = iceCalls[i].candidate]_vars

\* ------------------------------------------------------------ the audio gate
\* A remote track: its sid, its kind, and whether isAgentIdentity holds of the
\* participant that published it.
RemoteTracks == [id : 1..MaxTracks, kind : TrackKinds, isAgent : BOOLEAN]

trackOther == <<logHist, fwdHist, sessVars, sessHist, unloadVars, captureVars, fedHist,
                iceVars, retryVars, appVars>>

\* RoomEvent.TrackSubscribed for a track not subscribed so far.
SubscribeTrack == \E t \in RemoteTracks :
    /\ \A u \in tracks : u.id # t.id
    /\ tracks' = tracks \cup {t}
    /\ handleTrackSubscribed(t.kind, t.isAgent)
    /\ UNCHANGED trackOther

\* RoomEvent.TrackUnsubscribed for a subscribed track.
UnsubscribeTrack == \E t \in tracks :
    /\ tracks' = tracks \ {t}
    /\ handleTrackUnsubscribed(t.kind, t.isAgent)
    /\ UNCHANGED trackOther

\* A subscribed track ends. An agent audio track carries the 'ended' listener of
\* lines 173-179; no other track does.
EndTrack == \E t \in tracks :
    /\ tracks' = tracks \ {t}
    /\ IF t.kind = "audio" /\ t.isAgent
       THEN handleTrackEnded
       ELSE UNCHANGED progVars
    /\ UNCHANGED trackOther

NextTracks ==
    \/ SubscribeTrack
    \/ UnsubscribeTrack
    \/ EndTrack

SpecTracks == Init /\ [][NextTracks]_vars

AgentAudio(ts) == {t \in ts : t.kind = "audio" /\ t.isAgent}

\* C35: liveKitAudioActiveRef is true exactly when an agent audio track is
\* subscribed and has not ended, so it stays true while one of two such tracks
\* remains; and a step about a track that is not an agent audio track leaves it.
C35_GateTracksUpstreamAudio ==
    [][/\ liveKitAudioActiveRef' <=> AgentAudio(tracks') # {}
       /\ AgentAudio(tracks') = AgentAudio(tracks)
             => liveKitAudioActiveRef' = liveKitAudioActiveRef]_vars

\* ------------------------------------------------- capture: races of events
\* C36: a restart timer that a fatal error found pending does not fire before the
\* next startListening call, and while such a timer is pending isListening is
\* false.
C36_FatalErrorCancelsPendingRestart ==
    [][/\ lastCap'.op = "timer" => Head(timers) \notin since.struck
       /\ since'.struck # {} => ~isListening']_vars

\* C37: when getUserMedia settles for a startListening call that a stopListening
\* call found suspended, every pending call being such a one, the recognizer is
\* not started, isListening and autoStartRef are false afterwards, and no stream
\* is held or live.
C37_StopWinsOverPendingStart ==
    [][(/\ lastCap'.op = "getUserMedia" /\ lastCap'.device # "camera"
        /\ since.overtaken > 0 /\ since.overtaken = pendingListen)
       => /\ ~lastCap'.started
          /\ ~isListening' /\ ~autoStartRef'
          /\ echoCancellationStreamRef' = Null
          /\ micStreams' = micStreams]_vars

\* ------------------------------------------------------------ fetchWithRetry
\* fetch resolves with a response of any status, or rejects with an error: a
\* TypeError (network failure, CORS), an AbortError (the timeout of line 7 or any
\* abort), or anything else, whose message may contain 'network'.
Responses == {[ok |-> TRUE, status |-> 200], [ok |-> FALSE, status |-> 404],
              [ok |-> FALSE, status |-> 500]}

FetchErrors == [name : {"AbortError", "TypeError", "Error"}, network : BOOLEAN]

\* Mutant: every failure is retried while retries are left.
RetryableAlways(e) == TRUE

\* The test of line 32 (part_007 line 18) on the error caught.
Retryable(e) == e.name = "AbortError" \/ e.name = "TypeError" \/ e.network

retryOther == <<progVars, logHist, fwdHist, sessVars, sessHist, unloadVars, captureVars,
                fedHist, iceVars, trackVars, appVars>>

\* fetchWithRetry(url, options, retries), lines 5-13: the first attempt is issued.
fetchWithRetry == \E retries \in 0..MaxRetries :
    /\ retry.at = "idle"
    /\ retry' = [NoRetry EXCEPT !.at = "fetch", !.n = retries, !.retries = retries]
    /\ UNCHANGED retryOther

\* Lines 14-15: the response is returned, whatever its status.
fetchResolved == \E response \in Responses :
    /\ retry.at = "fetch"
    /\ retry' = [retry EXCEPT !.at = "returned", !.log = Append(@, response),
                              !.result = <<response>>]
    /\ UNCHANGED retryOther

\* Lines 16-42: with retries left and a retryable error the call awaits the 1 s
\* timer of line 33; otherwise it throws an error of the same name.
fetchRejected == \E e \in FetchErrors :
    /\ retry.at = "fetch"
    /\ retry' = IF retry.retries > 0 /\ Retryable(e)
                THEN [retry EXCEPT !.at = "pause", !.log = Append(@, e)]
                ELSE [retry EXCEPT !.at = "threw", !.log = Append(@, e),
                                   !.result = <<e.name>>]
    /\ UNCHANGED retryOther

\* Line 34: the timer fired; fetchWithRetry(url, options, retries - 1, timeout)
\* issues the next attempt and its result is returned.
pauseElapsed ==
    /\ retry.at = "pause"
    /\ retry' = [retry EXCEPT !.at = "fetch", !.retries = @ - 1, !.pauses = @ + 1]
    /\ UNCHANGED retryOther

NextRetry ==
    \/ fetchWithRetry
    \/ fetchResolved
    \/ fetchRejected
    \/ pauseElapsed

\* The abort of line 7 settles every fetch within the timeout, and the timer of
\* line 33 fires: no step that is enabled is put off for ever.
SpecRetry == Init /\ [][NextRetry]_vars /\ WF_vars(NextRetry)

IsResponse(o) == o \in Responses

\* The attempts made so far, the one in flight included.
Attempts == Len(retry.log) + (IF retry.at = "fetch" THEN 1 ELSE 0)

\* What C38 says of every state of a call.
BoundedRetry ==
    /\ Attempts <= retry.n + 1
    /\ retry.at # "idle" => Attempts = retry.pauses + 1
    /\ \A i \in 1..Len(retry.log) :
          /\ IsResponse(retry.log[i])
                => i = Len(retry.log) /\ retry.at = "returned"
                      /\ retry.result = <<retry.log[i]>>
          /\ (~IsResponse(retry.log[i]) /\ i < Attempts)
                => retry.log[i].name \in {"AbortError", "TypeError"}
                      \/ retry.log[i].network
          /\ (~IsResponse(retry.log[i]) /\ ~(retry.log[i].name \in {"AbortError", "TypeError"}
                                              \/ retry.log[i].network))
                => i = Len(retry.log) /\ retry.at = "threw"
          /\ (~IsResponse(retry.log[i]) /\ i = retry.n + 1)
                => retry.at = "threw" /\ retry.result = <<retry.log[i].name>>
    /\ retry.at = "threw" => ~IsResponse(retry.log[Len(retry.log)])
    /\ retry.at = "pause" => Len(retry.log) <= retry.n

\* C38: a fetchWithRetry call with retries = n makes at most n + 1 attempts, each
\* but the first after a 1 s pause that follows an attempt failed with an
\* AbortError, a TypeError or a message containing 'network'; a response of any
\* status is returned and any other failure thrown without a further attempt; the
\* failure of attempt n + 1 is thrown; and every call returns or throws.
C38_FetchWithRetryBounded ==
    /\ []BoundedRetry
    /\ (retry.at # "idle") ~> (retry.at \in {"returned", "threw"})

\* Three retries were used up on retryable failures and the fourth failure thrown.
C38_Witness ==
    /\ retry.at = "threw" /\ retry.n = MaxRetries /\ Len(retry.log) = retry.n + 1
    /\ retry.pauses = retry.n
    /\ Retryable(retry.log[Len(retry.log)])

\* ------------------------------------------------------- avatar selection
\* maxChecks of the agent-join check.
MaxChecks == 10

\* heygenSessionId of an invocation that has not reached line 172.
Unset == -1

appOther == <<progVars, logHist, fwdHist, sessVars, sessHist, unloadVars, captureVars,
              fedHist, iceVars, trackVars, retryVars>>

\* handleAvatarSelect(avatar) up to its first await. sessionInfo is the value the
\* callback closed over: the state of the render that created it. The loading
\* screen covers the avatar grid, so a selection is made from the dashboard.
handleAvatarSelect == \E avatar \in {1} :
    /\ backendReady
    /\ view = "dashboard"
    /\ Len(selects) < MaxSelects
    /\ selectedAvatar' = avatar
    /\ view' = "loading"
    /\ viewBy' = "select"
    /\ selects' = Append(selects, [at |-> "create", sessionInfo |-> sessionInfoState,
                                   created |-> Null, heygenSessionId |-> Unset,
                                   checkCount |-> 0, roomOpen |-> FALSE,
                                   cancelled |-> FALSE])
    /\ UNCHANGED <<livekitRoom, sessionInfoState, backendReady, closing, currentRoom, issued>>
    /\ UNCHANGED appOther

\* handleBackendStatusChange(statusInfo).
handleBackendStatusChange == \E connected \in BOOLEAN :
    /\ backendReady' = connected
    /\ UNCHANGED <<view, viewBy, selectedAvatar, livekitRoom, sessionInfoState, selects,
                   closing, currentRoom, issued>>
    /\ UNCHANGED appOther

\* await createNewSession(...) resolved: the hook stores the new session in its
\* state (setSessionInfo); the invocation goes on to await startSession.
createNewSessionResolved == \E i \in DOMAIN selects :
    /\ selects[i].at = "create"
    /\ issued' = issued + 1
    /\ sessionInfoState' = issued + 1
    /\ selects' = [selects EXCEPT ![i].at = "start", ![i].created = issued + 1]
    /\ UNCHANGED <<view, viewBy, selectedAvatar, livekitRoom, backendReady, closing,
                   currentRoom>>
    /\ UNCHANGED appOther

\* await startSession(...) resolved: lines 161-189. heygenSessionId is read from
\* the sessionInfo the callback closed over and passed to connectToRoom.
startSessionResolved == \E i \in DOMAIN selects :
    /\ selects[i].at = "start"
    /\ selects' = [selects EXCEPT ![i].at = "connect",
                                  ![i].heygenSessionId = selects[i].sessionInfo]
    /\ UNCHANGED <<view, viewBy, selectedAvatar, livekitRoom, sessionInfoState, backendReady,
                   closing, currentRoom, issued>>
    /\ UNCHANGED appOther

\* await connectToRoom(...) resolved: setLivekitRoom(room) and the once-per-second
\* check is started (lines 191-219).
connectToRoomResolved == \E i \in DOMAIN selects :
    /\ selects[i].at = "connect"
    /\ livekitRoom' = i
    /\ currentRoom' = i
    /\ selects' = [selects EXCEPT ![i].at = "interval", ![i].roomOpen = TRUE]
    /\ UNCHANGED <<view, viewBy, selectedAvatar, sessionInfoState, backendReady, closing,
                   issued>>
    /\ UNCHANGED appOther

\* One of the three awaits rejected: the catch of lines 221-240.
selectRejected == \E i \in DOMAIN selects :
    /\ selects[i].at \in {"create", "start", "connect"}
    /\ view' = "dashboard"
    /\ viewBy' = "error"
    /\ selectedAvatar' = Null
    /\ livekitRoom' = Null
    /\ selects' = [selects EXCEPT ![i].at = "failed", ![i].cancelled = TRUE]
    /\ UNCHANGED <<sessionInfoState, backendReady, closing, currentRoom, issued>>
    /\ UNCHANGED appOther

\* The callback of agentCheckInterval, lines 199-219. agentCount is
\* room.remoteParticipants.size, which is 0 in a room that was disconnected.
agentCheck == \E i \in DOMAIN selects, agentCount \in 0..1 :
    /\ selects[i].at = "interval"
    /\ agentCount > 0 => selects[i].roomOpen
    /\ selects' = [selects EXCEPT
                      ![i].checkCount = @ + 1,
                      ![i].at = IF agentCount > 0 \/ selects[i].checkCount + 1 >= MaxChecks
                                THEN "delay" ELSE @]
    /\ UNCHANGED <<view, viewBy, selectedAvatar, livekitRoom, sessionInfoState, backendReady,
                   closing, currentRoom, issued>>
    /\ UNCHANGED appOther

\* The setTimeout callback of line 206 or 213.
delayedTransition == \E i \in DOMAIN selects :
    /\ selects[i].at = "delay"
    /\ view' = "interview"
    /\ viewBy' = "timer"
    /\ selects' = [selects EXCEPT ![i].at = "done"]
    /\ UNCHANGED <<selectedAvatar, livekitRoom, sessionInfoState, backendReady, closing,
                   currentRoom, issued>>
    /\ UNCHANGED appOther

\* handleCancelLoading() up to its first await; the loading screen that shows the
\* button is rendered while view is 'loading' and an avatar is selected. The
\* handler closed over livekitRoom and sessionInfo of the latest render.
handleCancelLoading ==
    /\ view = "loading" /\ selectedAvatar # Null
    /\ closing = NoClosing
    /\ closing' = [op |-> "cancel", room |-> livekitRoom # Null,
                   session |-> sessionInfoState # Null]
    /\ UNCHANGED <<view, viewBy, selectedAvatar, livekitRoom, sessionInfoState, backendReady,
                   selects, currentRoom, issued>>
    /\ UNCHANGED appOther

\* handleExitInterview() up to its first await; the interview view is rendered
\* while view is 'interview' with an avatar and a room.
handleExitInterview ==
    /\ view = "interview" /\ selectedAvatar # Null /\ livekitRoom # Null
    /\ closing = NoClosing
    /\ closing' = [op |-> "exit", room |-> TRUE, session |-> TRUE]
    /\ UNCHANGED <<view, viewBy, selectedAvatar, livekitRoom, sessionInfoState, backendReady,
                   selects, currentRoom, issued>>
    /\ UNCHANGED appOther

\* The rest of handleCancelLoading / handleExitInterview: disconnect() has left the
\* current room, closeSession() has cleared the hook's session unless it rejected
\* (closed = FALSE), and the view is reset. Neither handler touches the interval
\* or the timeouts of handleAvatarSelect.
closingSettled == \E closed \in BOOLEAN :
    /\ closing # NoClosing
    /\ currentRoom' = IF closing.room THEN Null ELSE currentRoom
    /\ sessionInfoState' = IF closing.session /\ closed THEN Null ELSE sessionInfoState
    /\ livekitRoom' = Null
    /\ selectedAvatar' = Null
    /\ view' = "dashboard"
    /\ viewBy' = closing.op
    /\ selects' = [i \in DOMAIN selects |->
                     [selects[i] EXCEPT
                        !.roomOpen = @ /\ ~(closing.room /\ currentRoom = i),
                        !.cancelled = @ \/ (closing.op = "cancel"
                                              /\ selects[i].at \notin {"done", "failed"})]]
    /\ closing' = NoClosing
    /\ UNCHANGED <<backendReady, issued>>
    /\ UNCHANGED appOther

\* The 30 s timeout of the effect of lines 35-47.
stuckReset ==
    /\ view \in {"loading", "interview"} /\ livekitRoom = Null
    /\ view' = "dashboard"
    /\ viewBy' = "stuck"
    /\ selectedAvatar' = Null
    /\ UNCHANGED <<livekitRoom, sessionInfoState, backendReady, selects, closing, currentRoom,
                   issued>>
    /\ UNCHANGED appOther



NextApp ==
    \/ handleAvatarSelect
    \/ handleBackendStatusChange
    \/ createNewSessionResolved
    \/ startSessionResolved
    \/ connectToRoomResolved
    \/ selectRejected
    \/ agentCheck
    \/ delayedTransition
    \/ handleCancelLoading
    \/ handleExitInterview
    \/ closingSettled
    \/ stuckReset

SpecApp == Init /\ [][NextApp]_vars

\* C39: once handleCancelLoading or the error path of handleAvatarSelect has set
\* the view to 'dashboard', no delayed transition of a cancelled invocation sets it
\* to 'interview', and the view leaves 'dashboard' only by a new selection.
C39_CancelDuringLoadingIsFinal ==
    [][/\ \A i \in DOMAIN selects :
             (selects[i].at = "delay" /\ selects'[i].at = "done") => ~selects[i].cancelled
       /\ (view = "dashboard" /\ viewBy \in {"cancel", "error"})
             => view' \in {"dashboard", "loading"}]_vars

\* C40: the session id an invocation of handleAvatarSelect passes to the room
\* connection is the id of the session its own createNewSession call created.
C40_RoomBoundToSessionJustCreated ==
    \A i \in DOMAIN selects :
       selects[i].heygenSessionId # Unset
          => selects[i].heygenSessionId = selects[i].created

====
